---- MODULE Spec2Model ----
(***************************************************************************)
(* Track (src/core/track.py) and PathFollower (src/core/path_follower.py). *)
(*                                                                         *)
(* Lengths are in metres and are integers here.  Every track of the model  *)
(* is collinear (its segments run along the x axis), so that segment       *)
(* lengths, interpolated targets and the smoothed direction are exact.     *)
(* math.hypot is monotone, so a comparison hypot(dx, dy) < c with c >= 0   *)
(* is the comparison dx*dx + dy*dy < c*c; the fractional thresholds of the *)
(* code (0.05, 0.1, 0.4, 0.5, 1.5) are kept as fractions of 100.           *)
(* Indices are 0-based as in the code: point i of a track is points[i+1].  *)
(***************************************************************************)
EXTENDS Integers, Sequences, FiniteSets, TLC

VARIABLES
    track,                 \* PathFollower.track.points (Track.points)
    lookahead_distance,    \* PathFollower.lookahead_distance
    position_tolerance,    \* PathFollower.position_tolerance
    offset,                \* PathFollower.offset
    running,               \* PathFollower.running
    current_track_index,   \* PathFollower.current_track_index
    last_target,           \* (last_target_x, last_target_y), None before the first tick
    stuck_counter,         \* PathFollower.stuck_counter
    robot,                 \* the pose robot.get_position() returns
    current_waypoint_index,   \* PointToPointPathFollower.current_waypoint_index
    waypoints_reached,     \* PointToPointPathFollower.waypoints_reached
    calibrator,            \* the OrientationCalibrator: its distance, offset and flag
    ready,                 \* robot.is_ready()
    dummy,                 \* the DummyRobot: position, goal, flag and event
    threads,               \* the threads inside DummyRobot.move_by_vector
    call                   \* the last operation: its name, inputs read and results

vars == <<track, lookahead_distance, position_tolerance, offset, running,
          current_track_index, last_target, stuck_counter, robot,
          current_waypoint_index, waypoints_reached, calibrator, ready, dummy,
          threads, call>>

None == [none |-> TRUE]

Abs(a) == IF a < 0 THEN -a ELSE a
Min(a, b) == IF a < b THEN a ELSE b
Max(a, b) == IF a > b THEN a ELSE b
Sgn(a) == IF a > 0 THEN 1 ELSE IF a < 0 THEN -1 ELSE 0

\* ---------------------------------------------------------------- bounds
\* Largest x and y of an agent position.
MaxX == 6
MaxY == 0
\* find_closest_point_index called on its own: the largest window, the largest
\* coordinate of a waypoint or query point.
MaxWindow == 3
MaxCoord == 2
\* Longest point list handed to the Track constructor, and its largest timestamp.
MaxPoints == 3
MaxStamp == 2
\* Largest offset asked of a PathFollower, in absolute value.
MaxOffset == 10

\* ------------------------------------------------------ program constants
BackwardWindow == 5        \* default backward_window
ForwardWindow == 20        \* default forward_window
SmoothWindow == 3          \* default window of _get_smoothed_direction
StuckLimit == 5            \* stuck_counter > 5
StuckJump == 3             \* current_track_index + 3
TargetMovedPct == 5        \* target_moved < 0.05
StuckClosePct == 40        \* robot_to_target < lookahead_distance * 0.4
CircularPct == 10          \* hypot(end - start) < 0.1
MaxOffsetPct == 150        \* max_safe_offset = lookahead_distance * 1.5
OffsetLookaheadPct == 50   \* lookahead_distance * (1.0 + abs(offset) * 0.5)
OffsetMinDistPct == 30     \* target_dist > lookahead_distance * 0.3
CommandPct == 50           \* distance_to_target > position_tolerance * 0.5

\* ------------------------------------------------------------- geometry
\* The square of math.hypot(dx, dy).
Hypot2(dx, dy) == dx * dx + dy * dy

\* math.hypot(dx, dy), for the vectors whose length is an integer.
Hypot(dx, dy) == CHOOSE r \in 0..(Abs(dx) + Abs(dy)) : r * r = Hypot2(dx, dy)

\* hypot(dx, dy) < pct/100 * scale
HypotLess(dx, dy, pct, scale) ==
    /\ pct * scale > 0
    /\ 10000 * Hypot2(dx, dy) < (pct * scale) * (pct * scale)

\* hypot(dx, dy) > pct/100 * scale
HypotGreater(dx, dy, pct, scale) ==
    \/ pct * scale < 0
    \/ 10000 * Hypot2(dx, dy) > (pct * scale) * (pct * scale)

TrackPoint(x, y, t) == [x |-> x, y |-> y, timestamp |-> t]

\* points[i] of the code
At(points, i) == points[i + 1]

\* ------------------------------------------------------------------ Track
\* Validate, accepting two equal timestamps in a row.
ValidateEqualStamps(points) ==
    IF Len(points) < 2 THEN "ValueError"
    ELSE IF \E i \in 1..(Len(points) - 1) :
                At(points, i).timestamp < At(points, i - 1).timestamp
         THEN "ValueError"
         ELSE "ok"

\* Track._validate: "ok", or the error it raises.
Validate(points) ==
    IF Len(points) < 2 THEN "ValueError"
    ELSE IF \E i \in 1..(Len(points) - 1) :
                At(points, i).timestamp <= At(points, i - 1).timestamp
         THEN "ValueError"
         ELSE "ok"

\* Track.__init__: the object (its points and name), or the error of _validate.
TrackInit(points, name) ==
    IF Validate(points) = "ok"
    THEN [points |-> points, name |-> name]
    ELSE [error |-> Validate(points)]

\* Track.load, from the data read from the file: {'name': ..., 'points': [[x, y, t], ...]}.
TrackLoad(data) ==
    TrackInit([i \in 1..Len(data.points) |->
                  TrackPoint(data.points[i][1], data.points[i][2], data.points[i][3])],
              data.name)

\* Track.get_total_duration
GetTotalDuration(points) == At(points, Len(points) - 1).timestamp - At(points, 0).timestamp

\* A distance, squared: float('inf'), or a finite one.
Infinity == [inf |-> TRUE]
Finite(dist2) == [d2 |-> dist2]

\* The loop of find_closest_point_index: i runs over range(search_start, search_end).
RECURSIVE ClosestScan(_, _, _, _, _, _, _)
ClosestScan(points, x, y, i, search_end, closest_idx, min_dist) ==
    IF i >= search_end THEN [index |-> closest_idx, dist |-> min_dist]
    ELSE LET dist2 == Hypot2(At(points, i).x - x, At(points, i).y - y)
         IN  IF min_dist = Infinity \/ dist2 < min_dist.d2
             THEN ClosestScan(points, x, y, i + 1, search_end, i, Finite(dist2))
             ELSE ClosestScan(points, x, y, i + 1, search_end, closest_idx, min_dist)

\* SearchEnd, with no forward window.
SearchEndWhole(points, start_from, forward_window) == Len(points)

\* The index one past the last index find_closest_point_index looks at.
SearchEnd(points, start_from, forward_window) ==
    Min(Len(points), start_from + forward_window)

\* SearchStart, one index further back.
SearchStartFurther(start_from, backward_window) == Max(0, start_from - backward_window - 1)

\* The first index find_closest_point_index looks at.
SearchStart(start_from, backward_window) == Max(0, start_from - backward_window)

\* find_closest_point_index looking only ahead of the start index.
FindClosestPointIndexAhead(points, x, y, start_from, backward_window, forward_window) ==
    ClosestScan(points, x, y,
                Min(start_from + 1, Len(points) - 1),
                SearchEnd(points, start_from, forward_window),
                start_from, Infinity)

\* Track.find_closest_point_index: (index, distance).
FindClosestPointIndex(points, x, y, start_from, backward_window, forward_window) ==
    ClosestScan(points, x, y,
                SearchStart(start_from, backward_window),
                SearchEnd(points, start_from, forward_window),
                start_from, Infinity)

\* a / b when b divides a (every division of the model is exact).
ExactDiv(a, b) == CHOOSE q \in {a \div b} : q * b = a

RECURSIVE Factorial(_)
Factorial(n) == IF n <= 1 THEN 1 ELSE n * Factorial(n - 1)

\* Track._get_smoothed_direction.  A segment i of length > 1e-6 (here: > 0)
\* contributes its unit vector times weight twice (once when it is appended to
\* directions, once in the sum), weight = 1/(1 + |i - point_index|); the sums are
\* kept as multiples of 1/D^2, D = (window + 1)!.  A non-zero sum of unit vectors
\* along one axis has length > 1e-6 and normalises to the unit vector of its sign.
SmoothedSum(points, point_index, window, axis) ==
    LET start_idx == Max(0, point_index - window)
        end_idx == Min(Len(points) - 2, point_index + window)
        D == Factorial(window + 1)
        Unit(i) == LET dx == At(points, i + 1).x - At(points, i).x
                       dy == At(points, i + 1).y - At(points, i).y
                       length == Hypot(dx, dy)
                   IN  IF length > 0
                       THEN ExactDiv(IF axis = "x" THEN dx ELSE dy, length)
                       ELSE 0
        W(i) == ExactDiv(D, 1 + Abs(i - point_index))
        Sum[i \in (start_idx - 1)..end_idx] ==
            IF i < start_idx THEN 0 ELSE Sum[i - 1] + Unit(i) * W(i) * W(i)
    IN  IF end_idx < start_idx THEN 0 ELSE Sum[end_idx]

GetSmoothedDirection(points, point_index, window) ==
    LET Normalize(avg_dx, avg_dy) ==
            IF avg_dx = 0 /\ avg_dy = 0 THEN <<1, 0>>
            ELSE CHOOSE d \in {<<Sgn(avg_dx), Sgn(avg_dy)>>} : Abs(d[1]) + Abs(d[2]) = 1
    IN  Normalize(SmoothedSum(points, point_index, window, "x"),
                  SmoothedSum(points, point_index, window, "y"))

\* What get_lookahead_position returns for the centerline target (x, y): the
\* offset target, or the centerline target when there is no offset or the offset
\* target is behind the robot or too close to it; with closest_idx.
ApplyOffset(points, x, y, robot_x, robot_y, lookahead, off, direction_index, closest_idx) ==
    LET Validated(d) ==
            LET perp_x == d[2]
                perp_y == -d[1]
                offset_target_x == x + perp_x * off
                offset_target_y == y + perp_y * off
                to_target_x == offset_target_x - robot_x
                to_target_y == offset_target_y - robot_y
                dot_product == to_target_x * d[1] + to_target_y * d[2]
            IN  IF dot_product > 0
                   /\ HypotGreater(to_target_x, to_target_y, OffsetMinDistPct, lookahead)
                THEN [x |-> offset_target_x, y |-> offset_target_y, index |-> closest_idx]
                ELSE [x |-> x, y |-> y, index |-> closest_idx]
    IN  IF off = 0 THEN [x |-> x, y |-> y, index |-> closest_idx]
        ELSE Validated(GetSmoothedDirection(points, direction_index, SmoothWindow))

\* 100 * effective_lookahead
EffectiveLookahead100(lookahead, off) ==
    IF off # 0 THEN lookahead * (100 + Abs(off) * OffsetLookaheadPct)
    ELSE lookahead * 100

\* The target reaches the end of the segment instead of the lookahead point.
InterpolateToEnd(p1, p2, segment_length, remaining100) == <<p2.x, p2.y>>

\* The point of the segment from p1 to p2 at `remaining100`/100 from p1.
Interpolate(p1, p2, segment_length, remaining100) ==
    IF segment_length > 0
    THEN <<p1.x + ExactDiv(remaining100 * (p2.x - p1.x), 100 * segment_length),
           p1.y + ExactDiv(remaining100 * (p2.y - p1.y), 100 * segment_length)>>
    ELSE <<p1.x, p1.y>>

\* The while loop of get_lookahead_position and what follows it.
RECURSIVE LookaheadWalk(_, _, _, _, _, _, _, _)
LookaheadWalk(points, robot_x, robot_y, lookahead, off, closest_idx, current_idx, accumulated) ==
    LET OnSegment(t) ==
            ApplyOffset(points, t[1], t[2], robot_x, robot_y, lookahead, off,
                        current_idx, closest_idx)
        Segment(p1, p2, segment_length, eff100) ==
            IF 100 * (accumulated + segment_length) >= eff100
            THEN OnSegment(Interpolate(p1, p2, segment_length,
                                       eff100 - 100 * accumulated))
            ELSE LookaheadWalk(points, robot_x, robot_y, lookahead, off, closest_idx,
                               current_idx + 1, accumulated + segment_length)
    IN  IF current_idx < Len(points) - 1
        THEN Segment(At(points, current_idx), At(points, current_idx + 1),
                     Hypot(At(points, current_idx + 1).x - At(points, current_idx).x,
                           At(points, current_idx + 1).y - At(points, current_idx).y),
                     EffectiveLookahead100(lookahead, off))
        ELSE IF off # 0 /\ Len(points) >= 2
             THEN ApplyOffset(points, At(points, Len(points) - 1).x,
                              At(points, Len(points) - 1).y,
                              robot_x, robot_y, lookahead, off, Len(points) - 2,
                              closest_idx)
             ELSE [x |-> At(points, Len(points) - 1).x,
                   y |-> At(points, Len(points) - 1).y, index |-> closest_idx]

\* Track.get_lookahead_position: (target_x, target_y, updated_track_index)
GetLookaheadPosition(points, robot_x, robot_y, lookahead, track_index, off) ==
    LET From(closest_idx) ==
            LookaheadWalk(points, robot_x, robot_y, lookahead, off, closest_idx,
                          closest_idx, 0)
    IN  From(FindClosestPointIndex(points, robot_x, robot_y, track_index,
                                   BackwardWindow, ForwardWindow).index)

\* What a call of get_lookahead_position ends with: the tuple it returns, or
\* the IndexError of self.points[-1] on an empty list.
GetLookaheadPositionOutcome(points, robot_x, robot_y, lookahead, track_index, off) ==
    IF Len(points) = 0 THEN [error |-> "IndexError"]
    ELSE GetLookaheadPosition(points, robot_x, robot_y, lookahead, track_index, off)

\* ----------------------------------------------------------- PathFollower
\* max_safe_offset = lookahead_distance * 1.5
MaxSafeOffset(lookahead) == ExactDiv(lookahead * MaxOffsetPct, 100)

\* max(-max_safe_offset, min(max_safe_offset, offset))
ClampOffset(lookahead, off) ==
    Max(-MaxSafeOffset(lookahead), Min(MaxSafeOffset(lookahead), off))

\* InitOffset, without the clamp.
InitOffsetUnclamped(lookahead, off) == off

\* The offset PathFollower.__init__ stores.
InitOffset(lookahead, off) ==
    IF Abs(off) > MaxSafeOffset(lookahead) THEN ClampOffset(lookahead, off) ELSE off

\* The offset PathFollower.set_offset stores.
SetOffsetValue(lookahead, off) == ClampOffset(lookahead, off)

\* PathFollower.is_circular_track
IsCircularTrack(points) ==
    HypotLess(At(points, Len(points) - 1).x - At(points, 0).x,
              At(points, Len(points) - 1).y - At(points, 0).y, CircularPct, 1)

\* EndCheckIndex, the reset one past the last index instead of 0.
EndCheckIndexPastEnd(points, index) ==
    IF IsCircularTrack(points) /\ index >= Len(points) - 1 THEN Len(points) ELSE index

\* EndCheckIndex, without the reset.
EndCheckIndexKept(points, index) == index

\* current_track_index after is_at_end_of_track
EndCheckIndex(points, index) ==
    IF IsCircularTrack(points) /\ index >= Len(points) - 1 THEN 0 ELSE index

\* IsAtEndOfTrack, without the exemption of circular tracks.
IsAtEndOfTrackAnyTrack(points, robot_x, robot_y, tolerance) ==
    HypotLess(At(points, Len(points) - 1).x - robot_x,
              At(points, Len(points) - 1).y - robot_y, 100, tolerance)

\* IsAtEndOfTrack, complete also at exactly the tolerance.
IsAtEndOfTrackInclusive(points, robot_x, robot_y, tolerance) ==
    IF IsCircularTrack(points) THEN FALSE
    ELSE ~HypotGreater(At(points, Len(points) - 1).x - robot_x,
                       At(points, Len(points) - 1).y - robot_y, 100, tolerance)

\* What is_at_end_of_track returns.
IsAtEndOfTrack(points, robot_x, robot_y, tolerance) ==
    IF IsCircularTrack(points) THEN FALSE
    ELSE HypotLess(At(points, Len(points) - 1).x - robot_x,
                   At(points, Len(points) - 1).y - robot_y, 100, tolerance)

\* target_moved < 0.05 and robot_to_target < self.lookahead_distance * 0.4,
\* when there is a last target.
StuckCondition(target, last, robot_x, robot_y, lookahead) ==
    /\ last # None
    /\ HypotLess(target.x - last.x, target.y - last.y, TargetMovedPct, 1)
    /\ HypotLess(target.x - robot_x, target.y - robot_y, StuckClosePct, lookahead)

\* NextStuckCounter, without the reset when the condition does not hold.
NextStuckCounterKept(counter, last, stuck) ==
    IF last = None THEN counter
    ELSE IF stuck THEN (IF counter + 1 > StuckLimit THEN 0 ELSE counter + 1)
    ELSE counter

\* stuck_counter after the stuck detection of a tick.
NextStuckCounter(counter, last, stuck) ==
    IF last = None THEN counter
    ELSE IF stuck THEN (IF counter + 1 > StuckLimit THEN 0 ELSE counter + 1)
    ELSE 0

\* Whether the tick forces progress: stuck_counter > 5 after the increment.
ForcesProgress(counter, stuck) == stuck /\ counter + 1 > StuckLimit

\* min(self.current_track_index + 3, len(self.track.points) - 1)
JumpIndex(points, index) == Min(index + StuckJump, Len(points) - 1)

\* The command sent also at exactly half the tolerance.
MoveCommandInclusive(target, robot_x, robot_y, tolerance) ==
    IF ~HypotLess(target.x - robot_x, target.y - robot_y, CommandPct, tolerance)
    THEN [kind |-> "move", dx |-> target.x - robot_x, dy |-> target.y - robot_y]
    ELSE [kind |-> "none"]

\* What robot.move_by_vector is called with, if it is called.
MoveCommand(target, robot_x, robot_y, tolerance) ==
    IF HypotGreater(target.x - robot_x, target.y - robot_y, CommandPct, tolerance)
    THEN [kind |-> "move", dx |-> target.x - robot_x, dy |-> target.y - robot_y]
    ELSE [kind |-> "none"]

\* The part of PathFollower.update after the completion check: index is
\* current_track_index as is_at_end_of_track left it.  The position is read
\* three times: pose by update itself, look by the get_target_position it
\* calls, relook by the get_target_position after a forced jump.
TickReads(points, lookahead, tolerance, off, index, last, counter, pose, look, relook) ==
    LET Finish(first, stuck, forced, final) ==
            [index |-> final.index,
             target |-> [x |-> final.x, y |-> final.y],
             stuck_counter |-> NextStuckCounter(counter, last, stuck),
             stuck |-> stuck,
             jumped |-> forced,
             first_index |-> first.index,
             cmd |-> MoveCommand(final, pose.x, pose.y, tolerance)]
        Recover(first, stuck, forced) ==
            Finish(first, stuck, forced,
                   IF forced
                   THEN GetLookaheadPosition(points, relook.x, relook.y, lookahead,
                                             JumpIndex(points, first.index), off)
                   ELSE first)
        Detect(first, stuck) == Recover(first, stuck, ForcesProgress(counter, stuck))
        Target(first) ==
            Detect(first, StuckCondition(first, last, pose.x, pose.y, lookahead))
    IN  Target(GetLookaheadPosition(points, look.x, look.y, lookahead, index, off))

\* The tick when the position does not change while update runs.
Tick(points, lookahead, tolerance, off, index, last, counter, robot_x, robot_y) ==
    TickReads(points, lookahead, tolerance, off, index, last, counter,
              [x |-> robot_x, y |-> robot_y], [x |-> robot_x, y |-> robot_y],
              [x |-> robot_x, y |-> robot_y])

\* -------------------------------------------------- OrientationCalibrator
\* Lengths of the calibrator are decimetres.  An angle is kept as the direction
\* it points in, the shortest integer vector along it: atan2 is one-to-one on
\* directions, so two angles are equal exactly when these vectors are.

\* calibration_distance * 0.3, as a percentage
CalibrationMinPct == 30

\* The default calibration_distance, 0.5 m.
DefaultCalibrationDistance == 5

RECURSIVE Gcd(_, _)
Gcd(a, b) == IF b = 0 THEN a ELSE Gcd(b, a % b)

\* math.atan2(dy, dx); atan2(0, 0) is 0.0, the angle of (1, 0).
Atan2(dy, dx) ==
    IF dx = 0 /\ dy = 0
    THEN [dx |-> 1, dy |-> 0]
    ELSE [dx |-> ExactDiv(dx, Gcd(Abs(dx), Abs(dy))),
          dy |-> ExactDiv(dy, Gcd(Abs(dx), Abs(dy)))]

\* The angle 0.0
ZeroAngle == Atan2(0, 1)

\* OrientationCalibrator.__init__
CalibratorInit(calibration_distance) ==
    [calibration_distance |-> calibration_distance,
     orientation_offset |-> ZeroAngle,
     is_calibrated |-> FALSE]

\* calibrate with the fields assigned before the displacement is checked.
CalibrateAssignFirst(c, actual_dx, actual_dy) ==
    [raised |-> HypotLess(actual_dx, actual_dy, CalibrationMinPct, c.calibration_distance),
     ret |-> Atan2(actual_dy, actual_dx),
     calibrator |-> [c EXCEPT !.orientation_offset = Atan2(actual_dy, actual_dx),
                              !.is_calibrated = TRUE]]

\* OrientationCalibrator.calibrate from the displacement on: whether it raises
\* RuntimeError, what it returns if it does not, and the calibrator afterwards.
Calibrate(c, actual_dx, actual_dy) ==
    IF HypotLess(actual_dx, actual_dy, CalibrationMinPct, c.calibration_distance)
    THEN [raised |-> TRUE, ret |-> None, calibrator |-> c]
    ELSE [raised |-> FALSE,
          ret |-> Atan2(actual_dy, actual_dx),
          calibrator |-> [c EXCEPT !.orientation_offset = Atan2(actual_dy, actual_dx),
                                   !.is_calibrated = TRUE]]

\* OrientationCalibrator.reset
CalibratorReset(c) ==
    [c EXCEPT !.orientation_offset = ZeroAngle, !.is_calibrated = FALSE]

\* A vector whose components are x and y divided by the square root of scale2:
\* what a rotation by an angle kept as a direction produces.
Scaled(x, y, scale2) == [x |-> x, y |-> y, scale2 |-> scale2]

\* -angle
NegAngle(angle) == [dx |-> angle.dx, dy |-> -angle.dy]

\* math.cos and math.sin of an angle: cos and sin here, over the square root
\* of norm2.
CosSin(angle) ==
    [cos |-> angle.dx, sin |-> angle.dy, norm2 |-> angle.dx * angle.dx + angle.dy * angle.dy]

\* The rotation both transforms apply: (dx*cos - dy*sin, dx*sin + dy*cos).
Rotated(v, t) ==
    Scaled(v.x * t.cos - v.y * t.sin, v.x * t.sin + v.y * t.cos, v.scale2 * t.norm2)

\* transform_vector rotating by the offset, not by its negative.
TransformVectorForward(c, dx, dy) ==
    IF ~c.is_calibrated
    THEN Scaled(dx, dy, 1)
    ELSE Rotated(Scaled(dx, dy, 1), CosSin(c.orientation_offset))

\* OrientationCalibrator.transform_vector
TransformVector(c, dx, dy) ==
    IF ~c.is_calibrated
    THEN Scaled(dx, dy, 1)
    ELSE Rotated(Scaled(dx, dy, 1), CosSin(NegAngle(c.orientation_offset)))

\* Robot._transform_vector, for a robot given orientation_offset
RobotTransformVector(orientation_offset, dx, dy) ==
    Rotated(Scaled(dx, dy, 1), CosSin(NegAngle(orientation_offset)))

\* ------------------------------------------------------------ DummyRobot
\* The simulated robot moves along the x axis.

\* DummyRobot.__init__: no goal, the event clear.
DummyRobotInit(initial_x) ==
    [x |-> initial_x, goal_x |-> None, goal_active |-> FALSE,
     goal_complete_event |-> FALSE, running |-> TRUE]

\* A goal coordinate that is not None.
Goal(g) == [at |-> g]

\* The threads that call move_by_vector.
Callers == {1, 2}

\* No thread is inside move_by_vector.
NoThreads == [t \in Callers |-> [pc |-> "out", goal |-> None, undisturbed |-> TRUE]]

\* max_speed / update_rate_hz: the longest step of one pass of the loop
SpeedStep == 2

\* kp_lin / update_rate_hz, as a percentage
GainPct == 50

\* pos_tolerance
PosTolerance == 1

\* min(max_speed, kp_lin * dist) * dt
StepLength(dist) ==
    IF GainPct * dist >= 100 * SpeedStep THEN SpeedStep ELSE ExactDiv(GainPct * dist, 100)

\* One pass of _simulation_loop that declares the goal reached without
\* looking at the distance.
SimulateArrived(d) ==
    [d EXCEPT !.goal_active = FALSE, !.goal_complete_event = TRUE]

\* One pass of _simulation_loop with an active goal (mecanum mode): the goal is
\* reached, or the robot steps towards it.
Simulate(d) ==
    IF Abs(d.goal_x.at - d.x) <= PosTolerance
    THEN [d EXCEPT !.goal_active = FALSE, !.goal_complete_event = TRUE]
    ELSE [d EXCEPT !.x = d.x + Sgn(d.goal_x.at - d.x) * StepLength(Abs(d.goal_x.at - d.x))]

\* goal_complete_event.set(): the threads inside wait() are woken.
Woken(ts) ==
    [t \in Callers |-> IF ts[t].pc = "waiting" THEN [ts[t] EXCEPT !.pc = "woken"] ELSE ts[t]]

\* A stop() or a move_by_vector call comes between the calls in progress and
\* their goals.
Disturbed(ts) ==
    [t \in Callers |-> IF ts[t].pc = "out" THEN ts[t] ELSE [ts[t] EXCEPT !.undisturbed = FALSE]]

\* ------------------------------------------------------- the follower's runs
\* A track along the x axis through the given abscissas, one second apart.
LineTrack(xs, name) ==
    TrackInit([i \in 1..Len(xs) |-> TrackPoint(xs[i], 0, i - 1)], name)

\* The tracks followed: an open line, and two closed paths (out along the x axis
\* and back): a short one, and one long enough for the search window to leave
\* index 0 behind, whose waypoints on the way back lie between those on the way out.
Tracks ==
    { LineTrack(<<0, 1, 2, 3, 4, 5, 6>>, "line"),
      LineTrack(<<0, 2, 4, 3, 0>>, "hairpin"),
      LineTrack(<<0, 2, 4, 6, 5, 3, 1, 0>>, "loop") }

Lookaheads == {4}
Tolerances == {2}
Offsets == {-8, 0}

Positions == [x : 0..MaxX, y : 0..MaxY]

NoCommand == [kind |-> "none"]

Init ==
    /\ track \in Tracks
    /\ lookahead_distance \in Lookaheads
    /\ position_tolerance \in Tolerances
    /\ \E o \in Offsets :
          /\ offset = InitOffset(lookahead_distance, o)
          /\ call = [name |-> "__init__", requested |-> o]
    /\ running = FALSE
    /\ current_track_index = 0
    /\ last_target = None
    /\ stuck_counter = 0
    /\ current_waypoint_index = 0
    /\ waypoints_reached = <<>>
    /\ calibrator = CalibratorInit(DefaultCalibrationDistance)
    /\ ready = TRUE
    /\ dummy = DummyRobotInit(0)
    /\ threads = NoThreads
    /\ robot \in Positions

\* What no method of PathFollower assigns: its configuration and the fields
\* that only the point-to-point subclass has, and the calibrator.
config == <<track, lookahead_distance, position_tolerance,
           current_waypoint_index, waypoints_reached, calibrator,
           ready, dummy, threads>>

\* PathFollower.start (the robot is ready)
Start ==
    /\ ready
    /\ running' = TRUE
    /\ call' = [name |-> "start"]
    /\ UNCHANGED <<config, offset, current_track_index, last_target, stuck_counter, robot>>

\* PathFollower.stop
Stop ==
    /\ running' = FALSE
    /\ call' = [name |-> "stop", cmd |-> [kind |-> "stop"]]
    /\ UNCHANGED <<config, offset, current_track_index, last_target, stuck_counter, robot>>

\* set_offset, the offset written into the stored waypoints.
SetOffsetStored(o) ==
    /\ offset' = SetOffsetValue(lookahead_distance, o)
    /\ track' = [track EXCEPT !.points =
                    [i \in 1..Len(track.points) |->
                        [track.points[i] EXCEPT !.y = SetOffsetValue(lookahead_distance, o)]]]
    /\ call' = [name |-> "set_offset", requested |-> o]
    /\ UNCHANGED <<lookahead_distance, position_tolerance, running, current_track_index,
                   last_target, stuck_counter, robot,
                   current_waypoint_index, waypoints_reached, calibrator,
                   ready, dummy, threads>>

\* PathFollower.set_offset
SetOffset(o) ==
    /\ offset' = SetOffsetValue(lookahead_distance, o)
    /\ call' = [name |-> "set_offset", requested |-> o]
    /\ UNCHANGED <<config, running, current_track_index, last_target, stuck_counter, robot>>

\* get_target_position, the search starting further on while the stuck counter runs.
GetTargetPositionStuck ==
    \E look \in {GetLookaheadPosition(track.points, robot.x, robot.y, lookahead_distance,
                                       Min(current_track_index + stuck_counter,
                                           Len(track.points) - 1), offset)} :
        /\ current_track_index' = look.index
        /\ call' = [name |-> "get_target_position", index_before |-> current_track_index,
                    target |-> [x |-> look.x, y |-> look.y]]
        /\ UNCHANGED <<config, offset, running, last_target, stuck_counter, robot>>

\* PathFollower.get_target_position
GetTargetPosition ==
    \E look \in {GetLookaheadPosition(track.points, robot.x, robot.y, lookahead_distance,
                                       current_track_index, offset)} :
        /\ current_track_index' = look.index
        /\ call' = [name |-> "get_target_position", index_before |-> current_track_index,
                    target |-> [x |-> look.x, y |-> look.y]]
        /\ UNCHANGED <<config, offset, running, last_target, stuck_counter, robot>>

\* PathFollower.is_at_end_of_track, called on its own
AtEndOfTrack ==
    /\ current_track_index' = EndCheckIndex(track.points, current_track_index)
    /\ call' = [name |-> "is_at_end_of_track", index_before |-> current_track_index,
                ret |-> IsAtEndOfTrack(track.points, robot.x, robot.y, position_tolerance)]
    /\ UNCHANGED <<config, offset, running, last_target, stuck_counter, robot>>

\* PathFollower.update on a follower that is not running
UpdateIdle ==
    /\ ~running
    /\ call' = [name |-> "update", ret |-> FALSE, cmd |-> NoCommand, tick |-> None,
                index_before |-> current_track_index, counter_before |-> stuck_counter]
    /\ UNCHANGED <<config, offset, running, current_track_index, last_target,
                   stuck_counter, robot>>

\* PathFollower.update when is_at_end_of_track() is true: stop() and return False
UpdateComplete ==
    /\ running
    /\ IsAtEndOfTrack(track.points, robot.x, robot.y, position_tolerance)
    /\ current_track_index' = EndCheckIndex(track.points, current_track_index)
    /\ running' = FALSE
    /\ call' = [name |-> "update", ret |-> FALSE, cmd |-> [kind |-> "stop"], tick |-> None,
                index_before |-> current_track_index, counter_before |-> stuck_counter]
    /\ UNCHANGED <<config, offset, last_target, stuck_counter, robot>>

\* PathFollower.update otherwise: one control tick
UpdateTick ==
    /\ running
    /\ ~IsAtEndOfTrack(track.points, robot.x, robot.y, position_tolerance)
    /\ \E t \in {Tick(track.points, lookahead_distance, position_tolerance, offset,
                       EndCheckIndex(track.points, current_track_index),
                       last_target, stuck_counter, robot.x, robot.y)} :
           /\ current_track_index' = t.index
           /\ last_target' = t.target
           /\ stuck_counter' = t.stuck_counter
           /\ call' = [name |-> "update", ret |-> TRUE, cmd |-> t.cmd, tick |-> t,
                       index_before |-> current_track_index,
                       counter_before |-> stuck_counter]
    /\ UNCHANGED <<config, offset, running, robot>>

\* The agent is somewhere else (the position source reports a new pose).
MoveRobot(p) ==
    /\ robot' = p
    /\ call' = [name |-> "move_robot"]
    /\ UNCHANGED <<config, offset, running, current_track_index, last_target, stuck_counter>>

Next ==
    \/ Start
    \/ Stop
    \/ \E o \in Offsets : SetOffset(o)
    \/ GetTargetPosition
    \/ AtEndOfTrack
    \/ UpdateIdle
    \/ UpdateComplete
    \/ UpdateTick
    \/ \E p \in Positions : MoveRobot(p)

Spec == Init /\ [][Next]_vars

\* ------------------------------------------------- constructing Tracks
\* The point lists handed to the constructor, and the file contents handed to load.
RECURSIVE SeqsUpTo(_, _)
SeqsUpTo(S, n) ==
    IF n = 0 THEN {<<>>}
    ELSE LET shorter == SeqsUpTo(S, n - 1)
         IN  shorter \cup {Append(q, e) : q \in {r \in shorter : Len(r) = n - 1}, e \in S}

PointLists == SeqsUpTo({TrackPoint(x, 0, t) : x \in 0..1, t \in 0..MaxStamp}, MaxPoints)
FileContents ==
    {[name |-> "file", points |-> q] :
        q \in SeqsUpTo({<<x, 0, t>> : x \in 0..1, t \in 0..MaxStamp}, MaxPoints)}

Idle ==
    /\ lookahead_distance = 4
    /\ position_tolerance = 2
    /\ offset = 0
    /\ running = FALSE
    /\ current_track_index = 0
    /\ last_target = None
    /\ stuck_counter = 0
    /\ current_waypoint_index = 0
    /\ waypoints_reached = <<>>
    /\ calibrator = CalibratorInit(DefaultCalibrationDistance)
    /\ ready = TRUE
    /\ dummy = DummyRobotInit(0)
    /\ threads = NoThreads
    /\ robot = [x |-> 0, y |-> 0]

follower == <<lookahead_distance, position_tolerance, offset, running,
              current_track_index, last_target, stuck_counter, robot,
              current_waypoint_index, waypoints_reached, calibrator,
              ready, dummy, threads>>

\* The arguments of a constructor call, or the contents of a file to load.
InitTrack ==
    /\ track = None
    /\ \/ \E points \in PointLists : call = [name |-> "points", points |-> points]
       \/ \E data \in FileContents : call = [name |-> "file", data |-> data]
    /\ Idle

\* Track(points, name): track is the object made, if one is made.
Construct ==
    /\ call.name = "points"
    /\ call' = [name |-> "Track", points |-> call.points,
                result |-> TrackInit(call.points, "new")]
    /\ track' = IF Validate(call.points) = "ok" THEN TrackInit(call.points, "new") ELSE None
    /\ UNCHANGED follower

\* Track.load(filepath), the file holding call.data
Load ==
    /\ call.name = "file"
    /\ call' = [name |-> "load", points |-> call.data.points,
                result |-> TrackLoad(call.data)]
    /\ track' = IF "error" \in DOMAIN TrackLoad(call.data) THEN None
                ELSE TrackLoad(call.data)
    /\ UNCHANGED follower

NextTrack == Construct \/ Load

SpecTrack == InitTrack /\ [][NextTrack]_vars

\* ------------------------------------------- find_closest_point_index alone
\* Every list of 2..MaxPoints + 1 waypoints on the x axis, one second apart.
NearTracks ==
    {TrackInit([i \in 1..Len(xs) |-> TrackPoint(xs[i], 0, i - 1)], "near") :
        xs \in {q \in SeqsUpTo(0..MaxCoord, MaxPoints + 1) : Len(q) >= 2}}

\* A track and the arguments of one call.
InitNearest ==
    /\ track \in NearTracks
    /\ \E x \in 0..MaxCoord, y \in 0..1, start_from \in 0..(Len(track.points) - 1),
          backward_window \in 0..MaxWindow, forward_window \in 0..MaxWindow :
          call = [name |-> "query", x |-> x, y |-> y, start_from |-> start_from,
                  backward_window |-> backward_window, forward_window |-> forward_window]
    /\ Idle

FindClosest ==
    /\ call.name = "query"
    /\ call' = [name |-> "find_closest_point_index", x |-> call.x, y |-> call.y,
                start_from |-> call.start_from,
                backward_window |-> call.backward_window,
                forward_window |-> call.forward_window,
                result |-> FindClosestPointIndex(track.points, call.x, call.y,
                                                 call.start_from, call.backward_window,
                                                 call.forward_window)]
    /\ UNCHANGED <<track, follower>>

NextNearest == FindClosest

SpecNearest == InitNearest /\ [][NextNearest]_vars

\* ------------------------------------------------------ the offset alone
InitOffsets ==
    /\ track = LineTrack(<<0, 1, 2, 3, 4, 5, 6>>, "line")
    /\ lookahead_distance \in {2, 4, 6}
    /\ position_tolerance = 2
    /\ \E o \in (-MaxOffset)..MaxOffset :
          /\ offset = InitOffset(lookahead_distance, o)
          /\ call = [name |-> "__init__", requested |-> o]
    /\ running = FALSE
    /\ current_track_index = 0
    /\ last_target = None
    /\ stuck_counter = 0
    /\ current_waypoint_index = 0
    /\ waypoints_reached = <<>>
    /\ calibrator = CalibratorInit(DefaultCalibrationDistance)
    /\ ready = TRUE
    /\ dummy = DummyRobotInit(0)
    /\ threads = NoThreads
    /\ robot = [x |-> 0, y |-> 0]

NextOffsets == \E o \in (-MaxOffset)..MaxOffset : SetOffset(o)

SpecOffset == InitOffsets /\ [][NextOffsets]_vars

\* ------------------------------------------------ closed paths, no offset
LoopTracks ==
    { LineTrack(<<0, 2, 4, 6, 5, 3, 1, 0>>, "loop"),
      LineTrack(<<0, 1, 2, 3, 4, 5, 6, 0, 1, 2, 3, 4, 5, 6, 0, 1, 2, 3, 4, 5, 6, 0>>,
                "laps") }

InitLoop ==
    /\ track \in LoopTracks
    /\ lookahead_distance \in Lookaheads
    /\ position_tolerance \in Tolerances
    /\ offset = InitOffset(lookahead_distance, 0)
    /\ call = [name |-> "__init__", requested |-> 0]
    /\ running = FALSE
    /\ current_track_index = 0
    /\ last_target = None
    /\ stuck_counter = 0
    /\ current_waypoint_index = 0
    /\ waypoints_reached = <<>>
    /\ calibrator = CalibratorInit(DefaultCalibrationDistance)
    /\ ready = TRUE
    /\ dummy = DummyRobotInit(0)
    /\ threads = NoThreads
    /\ robot \in Positions

NextLoop ==
    \/ Start
    \/ Stop
    \/ SetOffset(0)
    \/ GetTargetPosition
    \/ AtEndOfTrack
    \/ UpdateIdle
    \/ UpdateTick
    \/ \E p \in Positions : MoveRobot(p)

SpecLoop == InitLoop /\ [][NextLoop]_vars

\* --------------------------------------------- get_lookahead_position alone
\* Largest lookahead distance, and largest x and y of the position queried from.
MaxLookahead == 3
MaxQueryX == 4
MaxQueryY == 1

\* A track through the given points (x, y), one second apart.
PathTrack(pts, name) ==
    TrackInit([i \in 1..Len(pts) |-> TrackPoint(pts[i][1], pts[i][2], i - 1)], name)

\* Straight lines with uniformly spaced points, a line with a repeated point, a
\* track whose points all coincide, a hairpin and a track with a right-angle corner.
TargetTracks ==
    { LineTrack(<<0, 1, 2, 3, 4>>, "line"),
      LineTrack(<<0, 2, 4>>, "coarse"),
      LineTrack(<<0, 2, 2, 4>>, "repeat"),
      LineTrack(<<1, 1>>, "point"),
      LineTrack(<<0, 2, 4, 3, 0>>, "hairpin"),
      PathTrack(<<<<0, 0>>, <<2, 0>>, <<2, 2>>>>, "corner") }

\* The offsets queried with (even, so that the effective lookahead is whole).
TargetOffsets == {-2, 0, 2}

\* The track is along the x axis.
Collinear(points) == \A i \in 1..Len(points) : points[i].y = 0

\* A track and the arguments of one call; the offset is 0 off the x axis.
InitTarget ==
    /\ track \in TargetTracks
    /\ \E x \in 0..MaxQueryX, y \in 0..MaxQueryY, lookahead \in 1..MaxLookahead,
          track_index \in 0..(Len(track.points) - 1), off \in TargetOffsets :
          /\ off # 0 => Collinear(track.points)
          /\ call = [name |-> "target_query", x |-> x, y |-> y, lookahead |-> lookahead,
                     track_index |-> track_index, off |-> off]
    /\ Idle

ComputeTarget ==
    /\ call.name = "target_query"
    /\ call' = [name |-> "get_lookahead_position", x |-> call.x, y |-> call.y,
                lookahead |-> call.lookahead, track_index |-> call.track_index,
                off |-> call.off,
                result |-> GetLookaheadPosition(track.points, call.x, call.y,
                                                call.lookahead, call.track_index,
                                                call.off)]
    /\ UNCHANGED <<track, follower>>

NextTarget == ComputeTarget

SpecTarget == InitTarget /\ [][NextTarget]_vars

\* ------------------------------------------------------- TrackGenerator
\* A speed is given in hundredths of a metre per second; the time to travel a
\* length is in the unit of that length per (m/s): seconds for metres.
TotalTime(path_length, speed_pct) == ExactDiv(path_length * 100, speed_pct)

\* math.cos and math.sin of q quarter turns (2 * pi * i / num_points, for the
\* point counts that divide a turn into quarter turns).
CosQuarter(q) == IF q % 4 = 0 THEN 1 ELSE IF q % 4 = 2 THEN -1 ELSE 0
SinQuarter(q) == IF q % 4 = 1 THEN 1 ELSE IF q % 4 = 3 THEN -1 ELSE 0

\* generate_circle without the final point that closes the loop.
GenerateCircleOpen(radius, num_points, speed_pct) ==
    TrackInit([k \in 1..num_points |->
                  TrackPoint(radius * CosQuarter(ExactDiv(4 * (k - 1), num_points)),
                             radius * SinQuarter(ExactDiv(4 * (k - 1), num_points)),
                             ExactDiv(TotalTime(2 * radius, speed_pct) * (k - 1),
                                      num_points))],
              "Circle")

\* TrackGenerator.generate_circle, centred at the origin.  circumference is
\* 2 * pi * radius: the timestamps of a circle are in units of pi seconds.
GenerateCircle(radius, num_points, speed_pct) ==
    LET total_time == TotalTime(2 * radius, speed_pct)
        Quarter(i) == ExactDiv(4 * i, num_points)
    IN  TrackInit([k \in 1..(num_points + 1) |->
                      IF k <= num_points
                      THEN TrackPoint(radius * CosQuarter(Quarter(k - 1)),
                                      radius * SinQuarter(Quarter(k - 1)),
                                      ExactDiv(total_time * (k - 1), num_points))
                      ELSE TrackPoint(radius, 0, total_time)],
                  "Circle")

\* TrackGenerator.generate_figure_eight.  path_length is 2 * (2 * pi * radius):
\* the timestamps are in units of pi seconds.
GenerateFigureEight(radius, num_points, speed_pct) ==
    LET total_time == TotalTime(2 * (2 * radius), speed_pct)
        Quarter(i) == ExactDiv(4 * i, num_points)
    IN  TrackInit([k \in 1..(num_points + 1) |->
                      TrackPoint(radius * SinQuarter(Quarter(k - 1)),
                                 radius * SinQuarter(Quarter(k - 1))
                                        * CosQuarter(Quarter(k - 1)),
                                 ExactDiv(total_time * (k - 1), num_points))],
                  "Figure-Eight")

\* The square with corners on the axes' positive sides only.
SquareCornersFromOrigin(side_length) ==
    <<<<0, 0>>, <<side_length, 0>>, <<side_length, side_length>>, <<0, side_length>>,
      <<0, 0>>>>

\* corners of generate_square
SquareCorners(side_length) ==
    LET half == ExactDiv(side_length, 2)
    IN  <<<<-half, -half>>, <<half, -half>>, <<half, half>>, <<-half, half>>,
          <<-half, -half>>>>

\* TrackGenerator.generate_square
GenerateSquare(side_length, points_per_side, speed_pct) ==
    LET corners == SquareCorners(side_length)
        total_time == TotalTime(4 * side_length, speed_pct)
        total_points == 4 * points_per_side
        Along(a, b, j) == a + ExactDiv(j * (b - a), points_per_side)
        Point(i, j, point_count) ==
            TrackPoint(Along(corners[i + 1][1], corners[i + 2][1], j),
                       Along(corners[i + 1][2], corners[i + 2][2], j),
                       ExactDiv(total_time * point_count, total_points))
    IN  TrackInit([k \in 1..(total_points + 1) |->
                      IF k <= total_points
                      THEN Point((k - 1) \div points_per_side, (k - 1) % points_per_side,
                                 k - 1)
                      ELSE TrackPoint(corners[5][1], corners[5][2], total_time)],
                  "Square")

\* TrackGenerator.generate_straight_line, angle 0
GenerateStraightLine(length, num_points, speed_pct) ==
    LET total_time == TotalTime(length, speed_pct)
    IN  TrackInit([k \in 1..(num_points + 1) |->
                      TrackPoint(ExactDiv((k - 1) * length, num_points), 0,
                                 ExactDiv((k - 1) * total_time, num_points))],
                  "Straight-Line")

\* ------------------------------------------ a follower on the generated square
\* Lengths of this scene are in decimetres and its timestamps in tenths of a
\* second: a square of side 2 m, 10 or 5 points per side, 0.5 m/s, followed
\* with lookahead 0.5 m.
SquareTracks == {GenerateSquare(20, 10, 50), GenerateSquare(20, 5, 50)}
SquareLookaheads == {5}
SquarePositions == [x : {-10, 0, 10}, y : {-10, 0, 10}]

InitSquare ==
    /\ track \in SquareTracks
    /\ lookahead_distance \in SquareLookaheads
    /\ position_tolerance = 1
    /\ offset = 0
    /\ call = [name |-> "__init__", requested |-> 0]
    /\ running = FALSE
    /\ current_track_index = 0
    /\ last_target = None
    /\ stuck_counter = 0
    /\ current_waypoint_index = 0
    /\ waypoints_reached = <<>>
    /\ calibrator = CalibratorInit(DefaultCalibrationDistance)
    /\ ready = TRUE
    /\ dummy = DummyRobotInit(0)
    /\ threads = NoThreads
    /\ robot \in SquarePositions

NextSquare ==
    \/ GetTargetPosition
    \/ \E p \in SquarePositions : MoveRobot(p)

SpecSquare == InitSquare /\ [][NextSquare]_vars

\* ------------------------------- get_lookahead_position on a shortened list
\* Track.__init__ keeps the list it is given (self.points = points): the list
\* can lose points after the Track was validated.
ShortTracks == {LineTrack(<<0, 2>>, "pair"), LineTrack(<<0, 1, 2>>, "triple")}

InitShort ==
    /\ track \in ShortTracks
    /\ \E x \in 0..MaxCoord, lookahead \in 1..MaxLookahead, track_index \in 0..1,
          off \in TargetOffsets :
          call = [name |-> "target_query", x |-> x, y |-> 0, lookahead |-> lookahead,
                  track_index |-> track_index, off |-> off]
    /\ Idle

\* points.pop() by the holder of the list
PopPoint ==
    /\ call.name = "target_query"
    /\ Len(track.points) > 0
    /\ track' = [track EXCEPT !.points = SubSeq(track.points, 1, Len(track.points) - 1)]
    /\ UNCHANGED <<call, follower>>

ComputeTargetShort ==
    /\ call.name = "target_query"
    /\ call' = [name |-> "get_lookahead_position", x |-> call.x, y |-> call.y,
                lookahead |-> call.lookahead, track_index |-> call.track_index,
                off |-> call.off,
                result |-> GetLookaheadPositionOutcome(track.points, call.x, call.y,
                                                       call.lookahead, call.track_index,
                                                       call.off)]
    /\ UNCHANGED <<track, follower>>

NextShort == PopPoint \/ ComputeTargetShort

SpecShort == InitShort /\ [][NextShort]_vars

\* ------------------------------------------------------- save and load
\* The numbers of this scene are in tenths (the integer 15 is the float 1.5),
\* and a name is the sequence of its characters.

\* json.dump of a float: its shortest decimal form, sign, whole part and tenths.
JsonNumber(n) ==
    [sign |-> IF n < 0 THEN "-" ELSE "", whole |-> Abs(n) \div 10, tenths |-> Abs(n) % 10]

\* JsonParseNumber, the sign dropped.
JsonParseNumberUnsigned(tok) == tok.whole * 10 + tok.tenths

\* json.load of a number
JsonParseNumber(tok) ==
    (IF tok.sign = "-" THEN -1 ELSE 1) * (tok.whole * 10 + tok.tenths)

\* json.dump of a string: quotes and backslashes are escaped with a backslash.
RECURSIVE JsonString(_)
JsonString(s) ==
    IF s = <<>> THEN <<>>
    ELSE (IF Head(s) \in {"\"", "\\"} THEN <<"\\", Head(s)>> ELSE <<Head(s)>>)
         \o JsonString(Tail(s))

\* json.load of a string
RECURSIVE JsonParseString(_)
JsonParseString(text) ==
    IF text = <<>> THEN <<>>
    ELSE IF Head(text) = "\\"
         THEN <<text[2]>> \o JsonParseString(Tail(Tail(text)))
         ELSE <<Head(text)>> \o JsonParseString(Tail(text))

\* Track.save: the file written, JSON text for the suffix .json and a pickle of
\* the data otherwise.
TrackSave(trk, suffix) ==
    LET data == [name |-> trk.name,
                 points |-> [i \in 1..Len(trk.points) |->
                                <<trk.points[i].x, trk.points[i].y,
                                  trk.points[i].timestamp>>]]
    IN  IF suffix = ".json"
        THEN [suffix |-> suffix,
              text |-> [name |-> JsonString(data.name),
                        points |-> [i \in 1..Len(data.points) |->
                                       [k \in 1..3 |-> JsonNumber(data.points[i][k])]]]]
        ELSE [suffix |-> suffix, pickled |-> data]

\* Track.load of a file
TrackLoadFile(file) ==
    IF file.suffix = ".json"
    THEN TrackLoad([name |-> JsonParseString(file.text.name),
                    points |-> [i \in 1..Len(file.text.points) |->
                                   [k \in 1..3 |-> JsonParseNumber(file.text.points[i][k])]]])
    ELSE TrackLoad(file.pickled)

FileNames == {<<"a">>, <<"a", "\"", "b">>, <<"\\", "\\", "n">>}
FileCoords == {-5, 0, 12}
FileSuffixes == {".json", ".pkl"}

\* The valid tracks saved.
FileTracks ==
    {TrackInit(pts, nm) :
        pts \in {q \in SeqsUpTo({TrackPoint(x, -x, t) : x \in FileCoords, t \in 0..MaxStamp},
                                MaxPoints) : Validate(q) = "ok"},
        nm \in FileNames}

InitFile ==
    /\ track \in FileTracks
    /\ \E suffix \in FileSuffixes : call = [name |-> "filepath", suffix |-> suffix]
    /\ Idle

\* track.save(filepath)
Save ==
    /\ call.name = "filepath"
    /\ call' = [name |-> "save", saved |-> track, file |-> TrackSave(track, call.suffix)]
    /\ UNCHANGED <<track, follower>>

\* Track.load(filepath) of the file just written
LoadSaved ==
    /\ call.name = "save"
    /\ call' = [name |-> "load_saved", saved |-> call.saved, file |-> call.file,
                result |-> TrackLoadFile(call.file)]
    /\ track' = IF "error" \in DOMAIN TrackLoadFile(call.file) THEN None
                ELSE TrackLoadFile(call.file)
    /\ UNCHANGED follower

NextFile == Save \/ LoadSaved

SpecFile == InitFile /\ [][NextFile]_vars

\* --------------------------------------------------- the generators alone
\* Sizes (radius, side, length) in metres, point counts and speeds in
\* hundredths of m/s for which every coordinate and timestamp is whole.
GeneratorSizes == {4, 8, 12, 16}
GeneratorCounts == {1, 2, 4}
GeneratorSpeeds == {50, 100}

InitGenerate ==
    /\ track = None
    /\ \E size \in GeneratorSizes, count \in GeneratorCounts, speed \in GeneratorSpeeds :
          call = [name |-> "arguments", size |-> size, count |-> count, speed |-> speed]
    /\ Idle

\* The call of one generator: track is the Track returned, if one is.
Generated(generator, result) ==
    /\ call.name = "arguments"
    /\ call' = [name |-> generator, size |-> call.size, count |-> call.count,
                speed |-> call.speed, result |-> result]
    /\ track' = IF "error" \in DOMAIN result THEN None ELSE result
    /\ UNCHANGED follower

Circle ==
    Generated("generate_circle", GenerateCircle(call.size, call.count, call.speed))

FigureEight ==
    Generated("generate_figure_eight",
              GenerateFigureEight(call.size, call.count, call.speed))

Square ==
    Generated("generate_square", GenerateSquare(call.size, call.count, call.speed))

StraightLine ==
    Generated("generate_straight_line",
              GenerateStraightLine(call.size, call.count, call.speed))

NextGenerate == Circle \/ FigureEight \/ Square \/ StraightLine

SpecGenerate == InitGenerate /\ [][NextGenerate]_vars

\* ------------------------------------------- the point-to-point follower
\* PointToPointPathFollower of tests/test_point_to_point_path.py, a subclass of
\* PathFollower: start, stop and the robot are the parent's.  Lengths of this
\* scene are decimetres; waypoint_tolerance is the position_tolerance the
\* constructor hands to the parent.

\* How far past the last index the runs let current_waypoint_index grow.
MaxOvershoot == 1

\* get_current_waypoint
GetCurrentWaypoint(points, index) ==
    IF index >= Len(points) THEN points[Len(points)] ELSE At(points, index)

\* check_waypoint_reached: distance < waypoint_tolerance
CheckWaypointReached(points, index, robot_x, robot_y, tolerance) ==
    HypotLess(GetCurrentWaypoint(points, index).x - robot_x,
              GetCurrentWaypoint(points, index).y - robot_y, 100, tolerance)

\* The end of update: move_by_vector(dx, dy) when distance > waypoint_tolerance.
WaypointCommand(waypoint, robot_x, robot_y, tolerance) ==
    IF HypotGreater(waypoint.x - robot_x, waypoint.y - robot_y, 100, tolerance)
    THEN [kind |-> "move", dx |-> waypoint.x - robot_x, dy |-> waypoint.y - robot_y]
    ELSE [kind |-> "none"]

WaypointTracks ==
    { LineTrack(<<0, 2, 4>>, "line"), LineTrack(<<1, 3, 3, 5>>, "repeat") }

WaypointTolerances == {1, 2}

InitWaypoints ==
    /\ track \in WaypointTracks
    /\ lookahead_distance = 1
    /\ position_tolerance \in WaypointTolerances
    /\ offset = 0
    /\ running = FALSE
    /\ current_track_index = 0
    /\ last_target = None
    /\ stuck_counter = 0
    /\ current_waypoint_index = 0
    /\ waypoints_reached = <<>>
    /\ calibrator = CalibratorInit(DefaultCalibrationDistance)
    /\ ready = TRUE
    /\ dummy = DummyRobotInit(0)
    /\ threads = NoThreads
    /\ robot \in Positions
    /\ call = [name |-> "__init__"]

\* update while not running
WaypointUpdateIdle ==
    /\ ~running
    /\ call' = [name |-> "update", ret |-> FALSE, reached |-> FALSE, cmd |-> NoCommand]
    /\ UNCHANGED <<config, offset, running, current_track_index, last_target,
                   stuck_counter, robot>>

\* update, the current waypoint reached and none after it: advance_to_next_waypoint
\* returns False, the follower stops.
WaypointUpdateComplete ==
    /\ running
    /\ current_waypoint_index < Len(track.points) + MaxOvershoot
    /\ CheckWaypointReached(track.points, current_waypoint_index, robot.x, robot.y,
                            position_tolerance)
    /\ current_waypoint_index + 1 >= Len(track.points)
    /\ waypoints_reached' = Append(waypoints_reached, current_waypoint_index)
    /\ current_waypoint_index' = current_waypoint_index + 1
    /\ running' = FALSE
    /\ call' = [name |-> "update", ret |-> FALSE, reached |-> TRUE,
                cmd |-> [kind |-> "stop"]]
    /\ UNCHANGED <<track, lookahead_distance, position_tolerance, offset,
                   current_track_index, last_target, stuck_counter, robot, calibrator,
                   ready, dummy, threads>>

\* update, the current waypoint reached and another after it: the robot is
\* stopped, the index advanced, and the robot sent to the new waypoint.
WaypointUpdateAdvance ==
    /\ running
    /\ CheckWaypointReached(track.points, current_waypoint_index, robot.x, robot.y,
                            position_tolerance)
    /\ current_waypoint_index + 1 < Len(track.points)
    /\ waypoints_reached' = Append(waypoints_reached, current_waypoint_index)
    /\ current_waypoint_index' = current_waypoint_index + 1
    /\ call' = [name |-> "update", ret |-> TRUE, reached |-> TRUE,
                cmd |-> WaypointCommand(
                            GetCurrentWaypoint(track.points, current_waypoint_index + 1),
                            robot.x, robot.y, position_tolerance)]
    /\ UNCHANGED <<track, lookahead_distance, position_tolerance, offset, running,
                   current_track_index, last_target, stuck_counter, robot, calibrator,
                   ready, dummy, threads>>

\* update, the current waypoint not reached: the robot is sent to it.
WaypointUpdateMove ==
    /\ running
    /\ ~CheckWaypointReached(track.points, current_waypoint_index, robot.x, robot.y,
                             position_tolerance)
    /\ call' = [name |-> "update", ret |-> TRUE, reached |-> FALSE,
                cmd |-> WaypointCommand(
                            GetCurrentWaypoint(track.points, current_waypoint_index),
                            robot.x, robot.y, position_tolerance)]
    /\ UNCHANGED <<config, offset, running, current_track_index, last_target,
                   stuck_counter, robot>>

NextWaypoints ==
    \/ Start
    \/ Stop
    \/ WaypointUpdateIdle
    \/ WaypointUpdateComplete
    \/ WaypointUpdateAdvance
    \/ WaypointUpdateMove
    \/ \E p \in Positions : MoveRobot(p)

SpecWaypoints == InitWaypoints /\ [][NextWaypoints]_vars

\* ------------------------------------------------- calibrating the robot
\* How far the robot of the calibration scene can be from the origin, along
\* each axis.
MaxCalibration == 4

CalibrationPositions == [x : 0..MaxCalibration, y : 0..MaxCalibration]

CalibrationDistances == {DefaultCalibrationDistance, 10}

\* The fields of the followers, which the calibrator does not touch.
pursuit == <<track, lookahead_distance, position_tolerance, offset, running, current_track_index, last_target, stuck_counter, current_waypoint_index, waypoints_reached, ready, dummy, threads>>

InitCalibrate ==
    /\ track = None
    /\ lookahead_distance = 4
    /\ position_tolerance = 2
    /\ offset = 0
    /\ running = FALSE
    /\ current_track_index = 0
    /\ last_target = None
    /\ stuck_counter = 0
    /\ current_waypoint_index = 0
    /\ waypoints_reached = <<>>
    /\ calibrator \in {CalibratorInit(d) : d \in CalibrationDistances}
    /\ ready = TRUE
    /\ dummy = DummyRobotInit(0)
    /\ threads = NoThreads
    /\ robot \in CalibrationPositions
    /\ call = [name |-> "__init__"]

\* calibrate(robot): the position is read, the robot told to move
\* calibration_distance forward, and the position read again; p is where the
\* robot is by then.
RunCalibration(p) ==
    /\ robot' = p
    /\ \E result \in {Calibrate(calibrator, p.x - robot.x, p.y - robot.y)} :
          /\ calibrator' = result.calibrator
          /\ call' = [name |-> "calibrate", before |-> calibrator, start |-> robot,
                      end |-> p, raised |-> result.raised, ret |-> result.ret,
                      cmd |-> [kind |-> "move", dx |-> calibrator.calibration_distance,
                               dy |-> 0]]
    /\ UNCHANGED pursuit

\* reset()
Reset ==
    /\ calibrator' = CalibratorReset(calibrator)
    /\ call' = [name |-> "reset"]
    /\ UNCHANGED <<pursuit, robot>>

NextCalibrate ==
    \/ \E p \in CalibrationPositions : RunCalibration(p)
    \/ Reset

SpecCalibrate == InitCalibrate /\ [][NextCalibrate]_vars

\* ------------------------------------------- calibrating, then transforming
\* The robot is put back at the origin before each calibration and each
\* transformed command, and may end a calibration anywhere around it.

\* The largest component of a vector to transform.
MaxCommand == 2

Commands == [x : -MaxCommand..MaxCommand, y : -MaxCommand..MaxCommand]

Home == [x |-> 0, y |-> 0]

CompensatePositions == [x : -MaxCalibration..MaxCalibration, y : -MaxCalibration..MaxCalibration]

InitCompensate ==
    /\ track = None
    /\ lookahead_distance = 4
    /\ position_tolerance = 2
    /\ offset = 0
    /\ running = FALSE
    /\ current_track_index = 0
    /\ last_target = None
    /\ stuck_counter = 0
    /\ current_waypoint_index = 0
    /\ waypoints_reached = <<>>
    /\ calibrator \in {CalibratorInit(d) : d \in CalibrationDistances}
    /\ ready = TRUE
    /\ dummy = DummyRobotInit(0)
    /\ threads = NoThreads
    /\ robot = Home
    /\ call = [name |-> "__init__"]

\* calibrate(robot) with the robot at the origin
CalibrateFromHome(p) ==
    /\ robot = Home
    /\ RunCalibration(p)

\* The robot is put back at the origin.
ResetPosition ==
    /\ robot # Home
    /\ robot' = Home
    /\ call' = [name |-> "reset_position"]
    /\ UNCHANGED <<pursuit, calibrator>>

\* transform_vector(dx, dy), and what a Robot set to the calibrator's offset
\* makes of the same vector.
Transform(v) ==
    /\ robot = Home
    /\ call' = [name |-> "transform_vector", dx |-> v.x, dy |-> v.y,
                ret |-> TransformVector(calibrator, v.x, v.y),
                robot_ret |-> RobotTransformVector(calibrator.orientation_offset, v.x, v.y)]
    /\ UNCHANGED <<pursuit, robot, calibrator>>

NextCompensate ==
    \/ \E p \in CompensatePositions : CalibrateFromHome(p)
    \/ ResetPosition
    \/ \E v \in Commands : Transform(v)

SpecCompensate == InitCompensate /\ [][NextCompensate]_vars

\* ------------------------------------------ a robot that stops being ready
\* The follower's runs without offset, with a Robot that can be shut down.

InitReady ==
    /\ track \in Tracks
    /\ lookahead_distance \in Lookaheads
    /\ position_tolerance \in Tolerances
    /\ offset = 0
    /\ running = FALSE
    /\ current_track_index = 0
    /\ last_target = None
    /\ stuck_counter = 0
    /\ current_waypoint_index = 0
    /\ waypoints_reached = <<>>
    /\ calibrator = CalibratorInit(DefaultCalibrationDistance)
    /\ ready = TRUE
    /\ dummy = DummyRobotInit(0)
    /\ threads = NoThreads
    /\ robot \in Positions
    /\ call = [name |-> "__init__", requested |-> 0]

\* start that sets running although the robot is not ready.
StartUnchecked ==
    /\ ~ready
    /\ running' = TRUE
    /\ call' = [name |-> "start", error |-> "RuntimeError"]
    /\ UNCHANGED <<config, offset, current_track_index, last_target, stuck_counter, robot>>

\* PathFollower.start, the robot not ready: RuntimeError
StartNotReady ==
    /\ ~ready
    /\ call' = [name |-> "start", error |-> "RuntimeError"]
    /\ UNCHANGED <<config, offset, running, current_track_index, last_target,
                   stuck_counter, robot>>

\* Robot.shutdown
Shutdown ==
    /\ ready
    /\ ready' = FALSE
    /\ call' = [name |-> "shutdown"]
    /\ UNCHANGED <<track, lookahead_distance, position_tolerance, offset, running,
                   current_track_index, last_target, stuck_counter, robot,
                   current_waypoint_index, waypoints_reached, calibrator, dummy, threads>>

NextReady ==
    \/ Start
    \/ StartNotReady
    \/ Stop
    \/ Shutdown
    \/ UpdateIdle
    \/ UpdateComplete
    \/ UpdateTick
    \/ \E p \in Positions : MoveRobot(p)

SpecReady == InitReady /\ [][NextReady]_vars

\* ------------------------------------------------- the DummyRobot's threads
\* Callers of move_by_vector and stop, and the simulation thread.  The pc of a
\* caller: "out" of the call, "called" (goal set, lock released, wait() not yet
\* entered), "waiting" inside wait(), "woken" by set().

\* The robot stays within 0..MaxTravel.
MaxTravel == 4

Displacements == {-4, -2, 0, 2, 4}

InitDummy ==
    /\ track = None
    /\ lookahead_distance = 4
    /\ position_tolerance = 2
    /\ offset = 0
    /\ running = FALSE
    /\ current_track_index = 0
    /\ last_target = None
    /\ stuck_counter = 0
    /\ current_waypoint_index = 0
    /\ waypoints_reached = <<>>
    /\ calibrator = CalibratorInit(DefaultCalibrationDistance)
    /\ ready = TRUE
    /\ robot = [x |-> 0, y |-> 0]
    /\ dummy \in {DummyRobotInit(x) : x \in {0, MaxTravel}}
    /\ threads = NoThreads
    /\ call = [name |-> "__init__"]

\* What the DummyRobot and its callers leave alone.
others == <<track, lookahead_distance, position_tolerance, offset, running, current_track_index, last_target, stuck_counter, current_waypoint_index, waypoints_reached, calibrator, ready, robot>>

\* move_by_vector(dx, 0, blocking) up to the release of the lock
MoveByVector(t, dx, blocking) ==
    /\ threads[t].pc = "out"
    /\ dummy.x + dx \in 0..MaxTravel
    /\ dummy' = [dummy EXCEPT !.goal_x = Goal(dummy.x + dx), !.goal_active = TRUE,
                              !.goal_complete_event = FALSE]
    /\ threads' = [Disturbed(threads) EXCEPT ![t] =
                      [pc |-> IF blocking THEN "called" ELSE "out",
                       goal |-> Goal(dummy.x + dx), undisturbed |-> TRUE]]
    /\ call' = [name |-> "move_by_vector", thread |-> t, blocking |-> blocking]
    /\ UNCHANGED others

\* goal_complete_event.wait() is entered: it returns at once if the event is set.
EnterWait(t) ==
    /\ threads[t].pc = "called"
    /\ threads' = [threads EXCEPT ![t].pc =
                      IF dummy.goal_complete_event THEN "out" ELSE "waiting"]
    /\ call' = IF dummy.goal_complete_event
               THEN [name |-> "returned", thread |-> t, goal |-> threads[t].goal.at,
                     undisturbed |-> threads[t].undisturbed, x |-> dummy.x]
               ELSE [name |-> "wait", thread |-> t]
    /\ UNCHANGED <<others, dummy>>

\* wait() returns in a woken thread, and move_by_vector with it.
Return(t) ==
    /\ threads[t].pc = "woken"
    /\ threads' = [threads EXCEPT ![t].pc = "out"]
    /\ call' = [name |-> "returned", thread |-> t, goal |-> threads[t].goal.at,
                undisturbed |-> threads[t].undisturbed, x |-> dummy.x]
    /\ UNCHANGED <<others, dummy>>

\* DummyRobot.stop
StopRobot ==
    /\ dummy' = [dummy EXCEPT !.goal_x = Goal(dummy.x), !.goal_active = FALSE,
                              !.goal_complete_event = TRUE]
    /\ threads' = Woken(Disturbed(threads))
    /\ call' = [name |-> "stop"]
    /\ UNCHANGED others

\* One pass of _simulation_loop with an active goal
SimulationStep ==
    /\ dummy.running
    /\ dummy.goal_active
    /\ dummy.goal_x # None
    /\ dummy' = Simulate(dummy)
    /\ threads' = IF Simulate(dummy).goal_complete_event THEN Woken(threads) ELSE threads
    /\ call' = [name |-> "_simulation_loop"]
    /\ UNCHANGED others

NextDummy ==
    \/ \E t \in Callers, dx \in Displacements, blocking \in BOOLEAN : MoveByVector(t, dx, blocking)
    \/ \E t \in Callers : EnterWait(t)
    \/ \E t \in Callers : Return(t)
    \/ StopRobot
    \/ SimulationStep

\* The simulation thread keeps running and every thread gets to run.
SpecDummy ==
    /\ InitDummy
    /\ [][NextDummy]_vars
    /\ WF_vars(SimulationStep)
    /\ \A t \in Callers : WF_vars(EnterWait(t) \/ Return(t))

\* ------------------------------------------- a path longer than the window
\* A path that runs to and fro over the same stretch, longer than the forward
\* window, whose last waypoints lie between the earlier ones.

LongTrack ==
    LineTrack(<<0, 2, 4, 6, 4, 2, 0, 2, 4, 6, 4, 2, 0, 2, 4, 6, 4, 2, 0, 2, 4, 6, 5, 3, 1>>, "zigzag")

InitWindow ==
    /\ track = LongTrack
    /\ lookahead_distance = 4
    /\ position_tolerance = 2
    /\ offset = 0
    /\ running = FALSE
    /\ current_track_index = 0
    /\ last_target = None
    /\ stuck_counter = 0
    /\ current_waypoint_index = 0
    /\ waypoints_reached = <<>>
    /\ calibrator = CalibratorInit(DefaultCalibrationDistance)
    /\ ready = TRUE
    /\ dummy = DummyRobotInit(0)
    /\ threads = NoThreads
    /\ robot \in Positions
    /\ call = [name |-> "__init__", requested |-> 0]

\* get_target_position called again, the agent where the call before read it.
GetTargetPositionAgain ==
    /\ call.name = "get_target_position"
    /\ \E look \in {GetLookaheadPosition(track.points, robot.x, robot.y, lookahead_distance,
                                          current_track_index, offset)} :
          /\ current_track_index' = look.index
          /\ call' = [name |-> "get_target_position", index_before |-> current_track_index,
                      target |-> [x |-> look.x, y |-> look.y],
                      target_before |-> call.target]
    /\ UNCHANGED <<config, offset, running, last_target, stuck_counter, robot>>

NextWindow ==
    \/ GetTargetPosition
    \/ GetTargetPositionAgain
    \/ \E p \in Positions : MoveRobot(p)

SpecWindow == InitWindow /\ [][NextWindow]_vars

\* ----------------------------------- a position that changes during a tick
\* The position source (the tracker thread calling Robot.update_position, or the
\* DummyRobot's simulation thread) writes the pose while update reads it: each
\* get_position call of a tick can return another pose.

RacePositions == {p \in Positions : p.x \in {0, MaxX \div 2, MaxX} /\ p.y = 0}

InitRace ==
    /\ track = LineTrack(<<0, 1, 2, 3, 4, 5, 6>>, "line")
    /\ lookahead_distance \in Lookaheads
    /\ position_tolerance \in Tolerances
    /\ offset = 0
    /\ running = FALSE
    /\ current_track_index = 0
    /\ last_target = None
    /\ stuck_counter = 0
    /\ current_waypoint_index = 0
    /\ waypoints_reached = <<>>
    /\ calibrator = CalibratorInit(DefaultCalibrationDistance)
    /\ ready = TRUE
    /\ dummy = DummyRobotInit(0)
    /\ threads = NoThreads
    /\ robot \in RacePositions
    /\ call = [name |-> "__init__", requested |-> 0]

\* update, complete: is_at_end_of_track reads the pose at_end and finds the
\* agent at the end of the path.
UpdateCompleteRacing(at_end) ==
    /\ running
    /\ IsAtEndOfTrack(track.points, at_end.x, at_end.y, position_tolerance)
    /\ current_track_index' = EndCheckIndex(track.points, current_track_index)
    /\ running' = FALSE
    /\ robot' = at_end
    /\ call' = [name |-> "update", ret |-> FALSE, cmd |-> [kind |-> "stop"], tick |-> None,
                index_before |-> current_track_index, counter_before |-> stuck_counter]
    /\ UNCHANGED <<config, offset, last_target, stuck_counter>>

\* update, one control tick: is_at_end_of_track reads the pose at_end, update
\* reads pose, get_target_position reads look and, after a forced jump, relook.
UpdateTickRacing(at_end, pose, look, relook) ==
    /\ running
    /\ ~IsAtEndOfTrack(track.points, at_end.x, at_end.y, position_tolerance)
    /\ \E t \in {TickReads(track.points, lookahead_distance, position_tolerance, offset,
                            EndCheckIndex(track.points, current_track_index),
                            last_target, stuck_counter, pose, look, relook)} :
           /\ current_track_index' = t.index
           /\ last_target' = t.target
           /\ stuck_counter' = t.stuck_counter
           /\ call' = [name |-> "update", ret |-> TRUE, cmd |-> t.cmd, tick |-> t,
                       index_before |-> current_track_index,
                       counter_before |-> stuck_counter,
                       reads |-> [at_end |-> at_end, pose |-> pose, look |-> look,
                                  relook |-> IF t.jumped THEN relook ELSE look]]
           /\ robot' = IF t.jumped THEN relook ELSE look
    /\ UNCHANGED <<config, offset, running>>

NextRace ==
    \/ Start
    \/ UpdateIdle
    \/ \E at_end \in RacePositions : UpdateCompleteRacing(at_end)
    \/ \E at_end, pose, look, relook \in RacePositions :
          UpdateTickRacing(at_end, pose, look, relook)

SpecRace == InitRace /\ [][NextRace]_vars

\* ------------------------------------------ an agent that obeys each command
\* The caller's loop calls update until it returns False; after each tick the
\* agent stands where the command sent it, or where it was when none was sent.

\* Open paths: a straight line, and a path that doubles back over itself.
OpenTracks ==
    { LineTrack(<<0, 1, 2, 3, 4, 5, 6>>, "line"),
      LineTrack(<<0, 2, 4, 6, 4, 2>>, "fold") }

\* The offsets set_offset and __init__ leave unchanged.
ClampedOffsets == {o \in (-MaxOffset)..MaxOffset : \A l \in Lookaheads : ClampOffset(l, o) = o}

InitFollow ==
    /\ track \in OpenTracks
    /\ lookahead_distance \in Lookaheads
    /\ position_tolerance \in Tolerances
    /\ \E o \in ClampedOffsets :
          /\ offset = InitOffset(lookahead_distance, o)
          /\ call = [name |-> "__init__", requested |-> o]
    /\ running = FALSE
    /\ current_track_index = 0
    /\ last_target = None
    /\ stuck_counter = 0
    /\ current_waypoint_index = 0
    /\ waypoints_reached = <<>>
    /\ calibrator = CalibratorInit(DefaultCalibrationDistance)
    /\ ready = TRUE
    /\ dummy = DummyRobotInit(0)
    /\ threads = NoThreads
    /\ robot \in Positions

\* Where the agent stands once it has carried out the command.
Obeyed(cmd, pose) ==
    IF cmd.kind = "move" THEN [x |-> pose.x + cmd.dx, y |-> pose.y + cmd.dy] ELSE pose

\* PathFollower.start on a follower that is not running
StartIdle == ~running /\ Start

\* One control tick of update, and the agent carrying out its command.
UpdateTickObeyed ==
    /\ running
    /\ ~IsAtEndOfTrack(track.points, robot.x, robot.y, position_tolerance)
    /\ \E t \in {Tick(track.points, lookahead_distance, position_tolerance, offset,
                       EndCheckIndex(track.points, current_track_index),
                       last_target, stuck_counter, robot.x, robot.y)} :
           /\ current_track_index' = t.index
           /\ last_target' = t.target
           /\ stuck_counter' = t.stuck_counter
           /\ call' = [name |-> "update", ret |-> TRUE, cmd |-> t.cmd, tick |-> t,
                       index_before |-> current_track_index,
                       counter_before |-> stuck_counter,
                       odd |-> ~("odd" \in DOMAIN call /\ call.odd)]
           /\ robot' = Obeyed(t.cmd, robot)
    /\ UNCHANGED <<config, offset, running>>

NextFollow ==
    \/ StartIdle
    \/ UpdateIdle
    \/ UpdateComplete
    \/ UpdateTickObeyed

\* A tick can be taken, and every tick changes the state (odd flips): this is
\* ENABLED <<UpdateTickObeyed>>_vars.
TickEnabled ==
    running /\ ~IsAtEndOfTrack(track.points, robot.x, robot.y, position_tolerance)

\* The caller's loop keeps calling update while it returns True: weak fairness
\* of both branches of update, the one of the tick written out with TickEnabled.
SpecFollow ==
    /\ InitFollow /\ [][NextFollow]_vars
    /\ WF_vars(UpdateComplete)
    /\ ([]<>~TickEnabled \/ []<><<UpdateTickObeyed>>_vars)

\* ------------------------------------------------- the calibration file
\* The file is what the last call left at filepath: call.file.

\* json.dump and json.load of a float: the text is repr(value), which reads
\* back as the same float.
JsonFloat(value) == [repr |-> value]
JsonParseFloat(text) == text.repr

\* json.dump and json.load of a bool
JsonBool(value) == IF value THEN "true" ELSE "false"
JsonParseBool(text) == text = "true"

\* No file at filepath; a file that is not JSON; a JSON text that is a list.
MissingFile == [kind |-> "missing"]
InvalidJson == [kind |-> "invalid"]
JsonArray == [kind |-> "array"]

\* A file holding a JSON object with the given members.
JsonObject(members) == [kind |-> "object", members |-> members]

\* OrientationCalibrator.save_calibration: the file written.
SaveCalibration(c) ==
    JsonObject([orientation_offset |-> JsonFloat(c.orientation_offset),
                is_calibrated |-> JsonBool(c.is_calibrated),
                calibration_distance |-> JsonFloat(c.calibration_distance)])

\* OrientationCalibrator.load_calibration: open raises FileNotFoundError,
\* json.load raises JSONDecodeError, data['...'] raises KeyError on an object
\* without the key (all three caught: return False) and TypeError on a list
\* (not caught).  orientation_offset is assigned before is_calibrated is read.
LoadCalibration(c, file) ==
    IF file.kind \in {"missing", "invalid"}
    THEN [raised |-> None, ret |-> FALSE, calibrator |-> c]
    ELSE IF file.kind = "array"
    THEN [raised |-> [error |-> "TypeError"], ret |-> None, calibrator |-> c]
    ELSE IF "orientation_offset" \notin DOMAIN file.members
    THEN [raised |-> None, ret |-> FALSE, calibrator |-> c]
    ELSE IF "is_calibrated" \notin DOMAIN file.members
    THEN [raised |-> None, ret |-> FALSE,
          calibrator |-> [c EXCEPT !.orientation_offset =
                                       JsonParseFloat(file.members.orientation_offset)]]
    ELSE [raised |-> None, ret |-> TRUE,
          calibrator |-> [c EXCEPT !.orientation_offset =
                                       JsonParseFloat(file.members.orientation_offset),
                                   !.is_calibrated =
                                       JsonParseBool(file.members.is_calibrated)]]

\* The calibrators there can be: fresh, or calibrated to one of eight directions.
StoredCalibrators ==
    {CalibratorInit(DefaultCalibrationDistance)}
    \cup {[calibration_distance |-> DefaultCalibrationDistance,
           orientation_offset |-> Atan2(dy, dx), is_calibrated |-> TRUE] :
             dx \in -1..1, dy \in -1..1}

\* The members save_calibration writes.
CalibrationKeys == {"orientation_offset", "is_calibrated", "calibration_distance"}

\* The files somebody else can leave at filepath: none, one that is not JSON, a
\* list, or a saved calibration with some of its members removed.
OtherFiles ==
    {MissingFile, InvalidJson, JsonArray}
    \cup {JsonObject([k \in keys |-> SaveCalibration(c).members[k]]) :
             keys \in (SUBSET CalibrationKeys) \ {CalibrationKeys},
             c \in {s \in StoredCalibrators : s.orientation_offset.dx >= 0 /\ s.orientation_offset.dy = 0}}

InitStore ==
    /\ track = None
    /\ lookahead_distance = 4
    /\ position_tolerance = 2
    /\ offset = 0
    /\ running = FALSE
    /\ current_track_index = 0
    /\ last_target = None
    /\ stuck_counter = 0
    /\ current_waypoint_index = 0
    /\ waypoints_reached = <<>>
    /\ calibrator \in StoredCalibrators
    /\ ready = TRUE
    /\ dummy = DummyRobotInit(0)
    /\ threads = NoThreads
    /\ robot = [x |-> 0, y |-> 0]
    /\ call = [name |-> "__init__", file |-> MissingFile]

\* save_calibration(filepath)
Store ==
    /\ call' = [name |-> "save_calibration", file |-> SaveCalibration(calibrator),
                saved |-> calibrator]
    /\ UNCHANGED <<pursuit, robot, calibrator>>

\* load_calibration(filepath), by this calibrator or by another one
Restore(c) ==
    /\ \E result \in {LoadCalibration(c, call.file)} :
          /\ calibrator' = result.calibrator
          /\ call' = [name |-> "load_calibration", file |-> call.file, before |-> c,
                      raised |-> result.raised, ret |-> result.ret,
                      saved |-> IF "saved" \in DOMAIN call THEN call.saved ELSE None]
    /\ UNCHANGED <<pursuit, robot>>

\* The file is removed or replaced by somebody else.
Replace(file) ==
    /\ call' = [name |-> "replace", file |-> file]
    /\ UNCHANGED <<pursuit, robot, calibrator>>

NextStore ==
    \/ Store
    \/ \E c \in StoredCalibrators : Restore(c)
    \/ \E file \in OtherFiles : Replace(file)

SpecStore == InitStore /\ [][NextStore]_vars

\* ================================================================ properties
LastIndex == Len(track.points) - 1

\* The timestamps handed to the last constructor or load call, in order.
CallStamps ==
    [i \in 1..Len(call.points) |->
        IF call.name = "load" THEN call.points[i][3] ELSE call.points[i].timestamp]

\* Some timestamp is not strictly greater than the one before it.
NotIncreasing(stamps) == \E i \in 2..Len(stamps) : ~(stamps[i] > stamps[i - 1])

\* C1: constructing a Track (directly or through load) fails whenever the list
\* has fewer than 2 points or a timestamp is not strictly greater than the one
\* before it, and succeeds otherwise; a Track that exists has at least 2 points
\* and strictly increasing timestamps.
C1_ValidatedConstruction ==
    /\ call.name \in {"Track", "load"} =>
          /\ ("error" \in DOMAIN call.result)
                <=> (Len(call.points) < 2 \/ NotIncreasing(CallStamps))
          /\ "error" \notin DOMAIN call.result =>
                /\ track = call.result
                /\ [i \in 1..Len(track.points) |-> track.points[i].timestamp] = CallStamps
          /\ "error" \in DOMAIN call.result => track = None
    /\ track # None =>
          /\ Len(track.points) >= 2
          /\ \A i \in 2..Len(track.points) :
                track.points[i].timestamp > track.points[i - 1].timestamp

\* A list with two equal timestamps was refused, by the constructor.
C1_Witness ==
    /\ call.name = "Track"
    /\ Len(call.points) = 3
    /\ call.points[1].timestamp < call.points[2].timestamp
    /\ call.points[2].timestamp = call.points[3].timestamp
    /\ "error" \in DOMAIN call.result

\* The step is an update() tick or an is_at_end_of_track() call on a closed
\* path whose progress index is at the last index: the loop reset.
UpdateTickStep == call'.name = "update" /\ call'.tick # None

LoopReset ==
    /\ UpdateTickStep \/ call'.name = "is_at_end_of_track"
    /\ IsCircularTrack(track.points)
    /\ current_track_index >= LastIndex

JumpTick == call.name = "update" /\ call.tick # None /\ call.tick.jumped

\* The target computed for the agent from a closest index.
TargetFrom(closest_idx) ==
    LET Point(t) == [x |-> t.x, y |-> t.y]
    IN  Point(LookaheadWalk(track.points, robot.x, robot.y, lookahead_distance, offset,
                            closest_idx, closest_idx, 0))

\* C3: at the end of the tick that forces progress (the 6th consecutive stuck
\* tick), progress_index is 3 greater than before the tick, clamped to the last
\* index, the target is the one computed from that index, and the counter is 0.
C3_StuckRecovery ==
    JumpTick =>
        /\ call.counter_before = StuckLimit
        /\ stuck_counter = 0
        /\ current_track_index = Min(call.index_before + StuckJump, LastIndex)
        /\ last_target = TargetFrom(Min(call.index_before + StuckJump, LastIndex))

\* The stuck condition of a tick, from the state before it: the target the
\* tick first computes is less than 0.05 from the last target, and the agent
\* is less than 0.4 * lookahead_distance from it.
StuckBefore ==
    LET t == GetLookaheadPosition(track.points, robot.x, robot.y, lookahead_distance,
                                  EndCheckIndex(track.points, current_track_index),
                                  offset)
    IN  /\ last_target # None
        /\ 400 * Hypot2(t.x - last_target.x, t.y - last_target.y) < 1
        /\ 25 * Hypot2(t.x - robot.x, t.y - robot.y)
              < 4 * lookahead_distance * lookahead_distance

\* C4: a tick in which the stuck condition does not hold resets the counter; a
\* tick in which it holds adds 1, and forces progress (resetting the counter)
\* exactly when that makes more than 5; the counter stays within 0..5.
C4_StuckCounter ==
    /\ [](stuck_counter \in 0..StuckLimit)
    /\ [][UpdateTickStep =>
             /\ ~StuckBefore => stuck_counter' = 0 /\ ~call'.tick.jumped
             /\ StuckBefore /\ stuck_counter < StuckLimit =>
                   stuck_counter' = stuck_counter + 1 /\ ~call'.tick.jumped
             /\ StuckBefore /\ stuck_counter = StuckLimit =>
                   stuck_counter' = 0 /\ call'.tick.jumped]_vars

\* A tick in which the condition did not hold reset a counter that was counting.
C4_Witness ==
    /\ call.name = "update"
    /\ call.tick # None
    /\ ~call.tick.stuck
    /\ call.counter_before > 0
    /\ stuck_counter = 0

\* The agent is less than position_tolerance from the final waypoint.
WithinTolerance ==
    /\ position_tolerance > 0
    /\ Hypot2(track.points[Len(track.points)].x - robot.x,
              track.points[Len(track.points)].y - robot.y)
          < position_tolerance * position_tolerance

\* The first and the last waypoint are less than 0.1 apart.
Closed ==
    100 * Hypot2(track.points[Len(track.points)].x - track.points[1].x,
                 track.points[Len(track.points)].y - track.points[1].y) < 1

\* C5: on a closed path is_at_end_of_track is false in every reachable state,
\* and update() on a running follower returns True and leaves it running.
C5_ClosedNeverComplete ==
    /\ [](Closed => ~IsAtEndOfTrack(track.points, robot.x, robot.y, position_tolerance))
    /\ [][Closed /\ running /\ call'.name = "update" => call'.ret = TRUE /\ running']_vars
    /\ [][Closed /\ call'.name = "is_at_end_of_track" => call'.ret = FALSE]_vars

\* On a closed path a tick went on although the agent is at the final waypoint.
C5_Witness ==
    /\ Closed
    /\ WithinTolerance
    /\ call.name = "update"
    /\ call.ret = TRUE
    /\ running

\* The last operation was a tick on a closed path that began at the last index.
ResetTick ==
    /\ Closed
    /\ call.name = "update"
    /\ call.tick # None
    /\ call.index_before = LastIndex

\* The first index, among those the window starting at index 0 covers (0 up to
\* but not including min(len, 20)), of a waypoint nearest to the agent.
NearestFromZero ==
    LET end == Min(Len(track.points), ForwardWindow)
        D(i) == Hypot2(track.points[i + 1].x - robot.x, track.points[i + 1].y - robot.y)
    IN  CHOOSE i \in 0..(end - 1) :
            /\ \A j \in 0..(end - 1) : D(i) <= D(j)
            /\ \A j \in 0..(i - 1) : D(j) > D(i)

\* C6 as stated: the tick after progress_index reached the last index of a
\* closed path computes its target from a closest index near 0, not from the
\* end of the path (its final segment).
C6_NotFromEnd ==
    ResetTick =>
        /\ call.tick.first_index < ForwardWindow
        /\ call.tick.first_index < LastIndex - 1

\* C6, amended: that tick searches from index 0: the closest index is the
\* nearest waypoint among indices 0..min(len, 20) - 1 and the target is computed
\* from it; it is off the final segment when the path has more than 21
\* waypoints, while on a shorter path the window covers the end of the path too.
C6_SearchFromZero ==
    ResetTick =>
        /\ call.tick.first_index = NearestFromZero
        /\ call.tick.first_index < ForwardWindow
        /\ Len(track.points) > ForwardWindow + 1 => call.tick.first_index < LastIndex - 1
        /\ ~call.tick.jumped =>
              /\ current_track_index = NearestFromZero
              /\ last_target = TargetFrom(NearestFromZero)

\* A reset tick on a path of more than 21 waypoints, the agent at the final waypoint.
C6_Witness ==
    /\ ResetTick
    /\ Len(track.points) > ForwardWindow + 1
    /\ WithinTolerance
    /\ current_track_index < ForwardWindow

\* C7: on an open path is_at_end_of_track is true exactly when the agent is
\* less than position_tolerance from the final waypoint, whatever the progress
\* index; update() on a running follower then stops the robot, clears running
\* and returns False without touching index, target or counter or sending a
\* move, and otherwise returns True.
C7_OpenCompletion ==
    /\ [](~Closed => (IsAtEndOfTrack(track.points, robot.x, robot.y, position_tolerance)
                        <=> WithinTolerance))
    /\ [][~Closed /\ call'.name = "is_at_end_of_track" => call'.ret = WithinTolerance]_vars
    /\ [][~Closed /\ running /\ call'.name = "update" =>
             IF WithinTolerance
             THEN /\ ~running'
                  /\ call'.ret = FALSE
                  /\ call'.cmd = [kind |-> "stop"]
                  /\ call'.tick = None
                  /\ UNCHANGED <<current_track_index, last_target, stuck_counter>>
             ELSE /\ running'
                  /\ call'.ret = TRUE
                  /\ call'.tick # None]_vars

\* An open path was completed with the progress index not at the last index.
C7_Witness ==
    /\ ~Closed
    /\ call.name = "update"
    /\ call.ret = FALSE
    /\ call.cmd = [kind |-> "stop"]
    /\ ~running
    /\ WithinTolerance
    /\ current_track_index < LastIndex - 1

QueryDist2(i) == Hypot2(track.points[i + 1].x - call.x, track.points[i + 1].y - call.y)

\* C9: nearest_index returns an index of the inclusive range
\* [max(0, start_from - backward_window), min(last, start_from + forward_window)]
\* whose waypoint is nearest to (x, y) among all indices of that range, and its distance.
C9_InclusiveWindow ==
    call.name = "find_closest_point_index" =>
        LET lo == Max(0, call.start_from - call.backward_window)
            hi == Min(LastIndex, call.start_from + call.forward_window)
        IN  /\ call.result.index \in lo..hi
            /\ call.result.dist = Finite(QueryDist2(call.result.index))
            /\ \A j \in lo..hi : QueryDist2(call.result.index) <= QueryDist2(j)

\* C10: with start_from = 0 and a forward window covering the whole path
\* (0 + forward_window reaches the last index) the result is that of a scan
\* over all waypoints: the first index at the least distance, and that distance.
C10_WholePath ==
    (/\ call.name = "find_closest_point_index"
     /\ call.start_from = 0
     /\ call.forward_window >= LastIndex) =>
        /\ call.result.index \in 0..LastIndex
        /\ call.result.dist = Finite(QueryDist2(call.result.index))
        /\ \A j \in 0..LastIndex : QueryDist2(call.result.index) <= QueryDist2(j)
        /\ \A j \in 0..(call.result.index - 1) : QueryDist2(j) > QueryDist2(call.result.index)

\* The length of the polyline from waypoint i to waypoint j >= i.
RECURSIVE ArcLength(_, _, _)
ArcLength(points, i, j) ==
    IF j <= i THEN 0
    ELSE ArcLength(points, i, j - 1)
         + Hypot(At(points, j).x - At(points, j - 1).x, At(points, j).y - At(points, j - 1).y)

\* p is the point of the polyline at arc length s2/2 forward from waypoint
\* `from`, or the final waypoint when the rest of the path is shorter than that.
AtArcLength(points, from, s2, p) ==
    IF 2 * ArcLength(points, from, Len(points) - 1) < s2
    THEN p = [x |-> At(points, Len(points) - 1).x, y |-> At(points, Len(points) - 1).y]
    ELSE \E k \in from..(Len(points) - 2) :
            LET a2 == 2 * ArcLength(points, from, k)
                b2 == 2 * ArcLength(points, from, k + 1)
            IN  /\ a2 <= s2
                /\ s2 <= b2
                /\ 4 * Hypot2(p.x - At(points, k).x, p.y - At(points, k).y)
                      = (s2 - a2) * (s2 - a2)
                /\ 4 * Hypot2(At(points, k + 1).x - p.x, At(points, k + 1).y - p.y)
                      = (b2 - s2) * (b2 - s2)

\* The unit vectors along the axes.
UnitAxes == {<<1, 0>>, <<-1, 0>>, <<0, 1>>, <<0, -1>>}

\* The track starts at the origin and runs along the x axis in equal steps.
UniformLine(points) ==
    /\ Collinear(points)
    /\ At(points, 0).x = 0
    /\ \A i \in 1..(Len(points) - 1) :
          /\ At(points, i).x > At(points, i - 1).x
          /\ At(points, i).x - At(points, i - 1).x = At(points, 1).x - At(points, 0).x

\* C11: with offset 0 the target of get_lookahead_position is the point of the
\* polyline at arc length lookahead_distance forward from the closest waypoint,
\* or the final waypoint when the rest of the path is shorter; with an offset
\* the centerline point is taken at lookahead_distance * (1 + 0.5 * |offset|);
\* on a straight line of length L from the origin along the x axis, a query at
\* the start with lookahead L/2 and no offset returns (L/2, 0).
C11_LookaheadTarget ==
    call.name = "get_lookahead_position" =>
        LET r == call.result
            target == [x |-> r.x, y |-> r.y]
        IN  /\ call.off = 0 =>
                  AtArcLength(track.points, r.index, 2 * call.lookahead, target)
            /\ call.off # 0 =>
                  \E c \in {target} \cup {[x |-> r.x - call.off * d[2],
                                           y |-> r.y + call.off * d[1]] : d \in UnitAxes} :
                      AtArcLength(track.points, r.index,
                                  call.lookahead * (2 + Abs(call.off)), c)
            /\ (/\ UniformLine(track.points)
                /\ call.x = 0 /\ call.y = 0 /\ call.track_index = 0 /\ call.off = 0
                /\ 2 * call.lookahead = At(track.points, Len(track.points) - 1).x)
                  => target = [x |-> call.lookahead, y |-> 0]

\* The target is past the corner: 3 along the path from (0, 0) is (2, 1).
C11_Witness ==
    /\ call.name = "get_lookahead_position"
    /\ track.name = "corner"
    /\ call.off = 0
    /\ call.lookahead = 3
    /\ call.result = [x |-> 2, y |-> 1, index |-> 0]

\* The last operation was get_target_position on a new controller (progress
\* index 0, lookahead 0.5 m, no offset) of the square of side 2 m with 10
\* points per side, the agent at (x, y) decimetres.
SquareQueryFrom(x, y) ==
    /\ call.name = "get_target_position"
    /\ track = GenerateSquare(20, 10, 50)
    /\ lookahead_distance = 5
    /\ offset = 0
    /\ call.index_before = 0
    /\ robot = [x |-> x, y |-> y]

\* C12: on the generated square of side 2 m, 10 points per side, 0.5 m/s, a
\* controller with lookahead 0.5 and offset 0 whose agent is at (0, 0) returns
\* the target (0.5, 0), 0.5 m ahead along the first edge from a corner at (0, 0).
C12_SquareTarget ==
    SquareQueryFrom(0, 0) => call.target = [x |-> 5, y |-> 0]

\* C12, amended: the square is centred on the origin, its first corner is
\* (-1, -1) and (0, 0) is not on it; from (0, 0) the closest waypoint is
\* (0, -1), index 5, and the target is (0.5, -1), 0.5 m ahead of it along the
\* first edge; from the first corner the target is (-0.5, -1), 0.5 m ahead
\* along the first edge from that corner.
C12_SquareCentred ==
    /\ track = GenerateSquare(20, 10, 50) =>
          /\ [x |-> At(track.points, 0).x, y |-> At(track.points, 0).y]
                = [x |-> -10, y |-> -10]
          /\ \A i \in 0..LastIndex :
                Max(Abs(At(track.points, i).x), Abs(At(track.points, i).y)) = 10
    /\ SquareQueryFrom(0, 0) =>
          /\ current_track_index = 5
          /\ At(track.points, 5).x = 0 /\ At(track.points, 5).y = -10
          /\ call.target = [x |-> 5, y |-> -10]
    /\ SquareQueryFrom(-10, -10) =>
          /\ current_track_index = 0
          /\ call.target = [x |-> -5, y |-> -10]

\* The query from the centre of the square has been made.
C12_Witness == SquareQueryFrom(0, 0) /\ call.target = [x |-> 5, y |-> -10]

\* The last operation was get_lookahead_position with an offset.
OffsetQuery == call.name = "get_lookahead_position" /\ call.off # 0

\* The centerline target of the last query: the point at the effective
\* lookahead from the closest waypoint it returned.
CenterlineTarget ==
    CHOOSE c \in [x : 0..MaxQueryX, y : 0..MaxQueryY] :
        AtArcLength(track.points, call.result.index,
                    call.lookahead * (2 + Abs(call.off)), c)

\* The segment the centerline target is on: the first one, from waypoint k on,
\* at whose end the arc length from waypoint `from` reaches s2/2; the last
\* segment when the target is the final waypoint.
RECURSIVE TargetSegment(_, _, _, _)
TargetSegment(points, from, k, s2) ==
    IF k >= Len(points) - 1 THEN Len(points) - 2
    ELSE IF 2 * ArcLength(points, from, k + 1) >= s2 THEN k
    ELSE TargetSegment(points, from, k + 1, s2)

QuerySegment ==
    TargetSegment(track.points, call.result.index, call.result.index,
                  call.lookahead * (2 + Abs(call.off)))

\* The segments within the smoothing window of the target's segment all have
\* length 0, or their weighted directions cancel: the tangent is degenerate.
DegenerateTangent ==
    /\ SmoothedSum(track.points, QuerySegment, SmoothWindow, "x") = 0
    /\ SmoothedSum(track.points, QuerySegment, SmoothWindow, "y") = 0

\* The smoothed tangent at the target of the last query.
QueryTangent == GetSmoothedDirection(track.points, QuerySegment, SmoothWindow)

\* The candidate: the centerline target plus offset * (tangent_y, -tangent_x).
OffsetCandidate ==
    [x |-> CenterlineTarget.x + call.off * QueryTangent[2],
     y |-> CenterlineTarget.y - call.off * QueryTangent[1]]

\* (a) the candidate is ahead of the agent, (b) further than 0.3 * lookahead_distance
CandidateAccepted ==
    /\ (OffsetCandidate.x - call.x) * QueryTangent[1]
          + (OffsetCandidate.y - call.y) * QueryTangent[2] > 0
    /\ 100 * Hypot2(OffsetCandidate.x - call.x, OffsetCandidate.y - call.y)
          > 9 * call.lookahead * call.lookahead

QueryTarget == [x |-> call.result.x, y |-> call.result.y]

\* C13: with an offset the target is the centerline target or the centerline
\* target plus offset * (tangent_y, -tangent_x); it is the offset point exactly
\* when the candidate is strictly ahead of the agent along the tangent and
\* strictly further from it than 0.3 * lookahead_distance, and the centerline
\* target in every other case, degenerate tangents included; on an interior
\* segment and at the final waypoint alike.
C13_OffsetAcceptance ==
    OffsetQuery =>
        /\ QueryTarget \in {CenterlineTarget, OffsetCandidate}
        /\ QueryTarget = OffsetCandidate <=> CandidateAccepted /\ ~DegenerateTangent

\* The acceptance rule of C13 where the tangent is not degenerate.
OffsetAcceptanceRegular ==
    OffsetQuery /\ ~DegenerateTangent =>
        /\ QueryTarget \in {CenterlineTarget, OffsetCandidate}
        /\ QueryTarget = OffsetCandidate <=> CandidateAccepted

\* Offset points are returned and refused, inside the path and at its end.
OffsetSeenAccepted ==
    OffsetQuery /\ ~DegenerateTangent /\ CandidateAccepted
        /\ CenterlineTarget.x # At(track.points, LastIndex).x
OffsetSeenRefused ==
    OffsetQuery /\ ~DegenerateTangent /\ ~CandidateAccepted
        /\ CenterlineTarget.x = At(track.points, LastIndex).x

C15_NotReady ==
    (call.name = "get_lookahead_position" /\ Len(track.points) < 2)
        => call.result = [error |-> "NotReady"]

\* C16: no operation of the controller (get_target_position, update,
\* set_offset, is_at_end_of_track, start, stop) changes the path: after every
\* step the waypoints (x, y, t), their order and their number are those the
\* path was constructed with.
C16_PathReadOnly == [][track' = track]_vars

\* Every kind of operation has run on an offset controller: the last one is a
\* tick that forced progress.
C16_Witness ==
    /\ call.name = "update"
    /\ call.tick # None
    /\ call.tick.jumped
    /\ offset # 0
    /\ Len(track.points) = 5

GeneratorCall ==
    call.name \in {"generate_circle", "generate_figure_eight", "generate_square",
                   "generate_straight_line"}

\* The length travelled, as the generator takes it (in units of pi metres
\* for the circle and the figure-eight).
GeneratedLength ==
    IF call.name = "generate_circle" THEN 2 * call.size
    ELSE IF call.name = "generate_figure_eight" THEN 4 * call.size
    ELSE IF call.name = "generate_square" THEN 4 * call.size
    ELSE call.size

\* C18: each generator, for a point count >= 1 and a positive size and speed,
\* returns a Track that passes validation: at least 2 points and strictly
\* increasing timestamps, the first 0 and the last the total time (length over
\* speed); the circle, the line and the figure-eight have num_points + 1
\* points and the square 4 * points_per_side + 1.
C18_GeneratorsValid ==
    GeneratorCall =>
        /\ "error" \notin DOMAIN call.result
        /\ track = call.result
        /\ Len(track.points) >= 2
        /\ \A i \in 2..Len(track.points) :
              track.points[i].timestamp > track.points[i - 1].timestamp
        /\ track.points[1].timestamp = 0
        /\ call.speed * track.points[Len(track.points)].timestamp = 100 * GeneratedLength
        /\ Len(track.points) = IF call.name = "generate_square" THEN 4 * call.count + 1
                               ELSE call.count + 1

\* A circle of one point plus the closing point was generated.
C18_Witness ==
    /\ call.name = "generate_circle"
    /\ call.count = 1
    /\ track # None
    /\ Len(track.points) = 2


\* The robot is within waypoint_tolerance of the waypoint the follower is at.
WaypointWithin ==
    CheckWaypointReached(track.points, current_waypoint_index, robot.x, robot.y,
                         position_tolerance)

\* current_waypoint_index changes only in an update tick with the robot within
\* tolerance of the current waypoint, and then by exactly 1.
AdvancesWhenWithin ==
    current_waypoint_index' # current_waypoint_index =>
        /\ call'.name = "update"
        /\ WaypointWithin
        /\ current_waypoint_index' = current_waypoint_index + 1

\* waypoints_reached is 0, 1, ..., current_waypoint_index - 1.
ReachedInSequence ==
    waypoints_reached = [i \in 1..current_waypoint_index |-> i - 1]

\* An update returns False and stops the follower exactly when it is the tick
\* that reaches the last waypoint.
StopsOnLast ==
    call'.name = "update" =>
        ((call'.ret = FALSE /\ running /\ ~running')
            <=> (/\ running
                 /\ current_waypoint_index = Len(track.points) - 1
                 /\ WaypointWithin))

\* Once every waypoint has been reached, update returns False.
FalseWhenDone ==
    (call'.name = "update" /\ current_waypoint_index >= Len(track.points)) =>
        call'.ret = FALSE

WaypointsInOrder == [][AdvancesWhenWithin]_vars
WaypointsStopOnLast == [][StopsOnLast]_vars
WaypointsFalseWhenDone == [][FalseWhenDone]_vars

\* C19: the point-to-point follower visits the waypoints in order and skips
\* none: current_waypoint_index grows only in an update tick with the robot within
\* waypoint_tolerance of the current waypoint, by exactly 1; waypoints_reached is
\* always 0, 1, ..., current_waypoint_index - 1; update returns False and stops
\* the follower exactly when the last waypoint has been reached, and every later
\* update returns False.
C19_WaypointsInOrder ==
    /\ []ReachedInSequence
    /\ [][AdvancesWhenWithin /\ StopsOnLast /\ FalseWhenDone]_vars


\* The displacement between the two position reads of the last calibrate call
\* is less than 0.3 * calibration_distance.
DisplacementTooSmall ==
    100 * Hypot2(call.end.x - call.start.x, call.end.y - call.start.y)
        < 9 * call.before.calibration_distance * call.before.calibration_distance

\* C20: calibrate raises RuntimeError whenever the displacement between its two
\* position reads is less than 0.3 * calibration_distance, and orientation_offset
\* and is_calibrated then keep the values they had before the call; with a
\* displacement at least that large it sets is_calibrated and returns the offset
\* it stored.
C20_CalibrateChecksDisplacement ==
    call.name = "calibrate" =>
        IF DisplacementTooSmall
        THEN /\ call.raised
             /\ calibrator.orientation_offset = call.before.orientation_offset
             /\ calibrator.is_calibrated = call.before.is_calibrated
        ELSE /\ ~call.raised
             /\ calibrator.is_calibrated
             /\ call.ret = calibrator.orientation_offset
             /\ call.ret = Atan2(call.end.y - call.start.y, call.end.x - call.start.x)

\* A calibration that fails on a calibrator that an earlier one had set to an
\* offset other than 0.
C20_Witness ==
    /\ call.name = "calibrate"
    /\ DisplacementTooSmall
    /\ call.raised
    /\ call.before.is_calibrated
    /\ call.before.orientation_offset # ZeroAngle

\* A calibration that succeeds with a displacement of exactly
\* 0.3 * calibration_distance.
CalibratedAtThreshold ==
    /\ call.name = "calibrate"
    /\ ~call.raised
    /\ 100 * Hypot2(call.end.x - call.start.x, call.end.y - call.start.y)
        = 9 * call.before.calibration_distance * call.before.calibration_distance


\* The scaled vector v is (x, y), s being the square root of its scale.
SameVector(v, x, y, s) ==
    /\ s * s = v.scale2
    /\ v.x = x * s
    /\ v.y = y * s

\* The motion of a robot that executes the command v rotated by the angle theta.
Executed(v, theta) == Rotated(v, CosSin(theta))

\* The last calibrate call ran against a robot that executes its commands
\* rotated by some angle: the robot moved calibration_distance.
FaithfulCalibration ==
    /\ call.name = "calibrate"
    /\ Hypot2(call.end.x - call.start.x, call.end.y - call.start.y)
          = call.before.calibration_distance * call.before.calibration_distance

\* C21: calibration compensates the frame mismatch.  Calibrating against a robot
\* that executes commands rotated by theta stores theta (the command
\* (calibration_distance, 0) rotated by the stored offset is the observed
\* displacement); for a calibrator holding theta, the robot that is sent
\* transform_vector(dx, dy) moves by exactly (dx, dy), for every desired vector,
\* Robot._transform_vector giving the same command; an uncalibrated calibrator
\* returns (dx, dy) unchanged.
C21_CalibrationCompensates ==
    /\ FaithfulCalibration =>
          /\ ~call.raised
          /\ calibrator.is_calibrated
          /\ SameVector(Executed(Scaled(call.before.calibration_distance, 0, 1),
                                 calibrator.orientation_offset),
                        call.end.x - call.start.x, call.end.y - call.start.y,
                        Hypot(calibrator.orientation_offset.dx,
                              calibrator.orientation_offset.dy))
    /\ (call.name = "transform_vector" /\ calibrator.is_calibrated) =>
          /\ SameVector(Executed(call.ret, calibrator.orientation_offset),
                        call.dx, call.dy, CosSin(calibrator.orientation_offset).norm2)
          /\ call.robot_ret = call.ret
    /\ (call.name = "transform_vector" /\ ~calibrator.is_calibrated) =>
          call.ret = Scaled(call.dx, call.dy, 1)

\* A vector with both components nonzero transformed by a calibrator whose
\* offset is off the axes.
C21_Witness ==
    /\ call.name = "transform_vector"
    /\ calibrator.is_calibrated
    /\ calibrator.orientation_offset.dx # 0
    /\ calibrator.orientation_offset.dy # 0
    /\ call.dx # 0
    /\ call.dy # 0

\* A calibration against a robot whose frame is turned off the axes.
FaithfulCalibrationSeen ==
    /\ FaithfulCalibration
    /\ calibrator.orientation_offset.dx < 0
    /\ calibrator.orientation_offset.dy > 0


\* The last operation was an update tick that did not end in completion.
TickDone == call.name = "update" /\ call.tick # None

\* The agent is more than 0.5 * position_tolerance from the target of the tick.
FarFromTarget ==
    4 * Hypot2(call.tick.target.x - robot.x, call.tick.target.y - robot.y)
        > position_tolerance * position_tolerance

\* C22: an update tick that does not end in completion sends at most one move
\* command, whose vector is the final target of the tick minus the agent position
\* read in the tick; it sends the command if and only if the distance from agent
\* to target is strictly greater than 0.5 * position_tolerance.
C22_CommandVector ==
    TickDone =>
        /\ call.tick.target = last_target
        /\ call.cmd = call.tick.cmd
        /\ IF FarFromTarget
           THEN call.cmd = [kind |-> "move",
                            dx |-> call.tick.target.x - robot.x,
                            dy |-> call.tick.target.y - robot.y]
           ELSE call.cmd = [kind |-> "none"]

\* A tick in which the agent is exactly 0.5 * position_tolerance from its target
\* and nothing is sent.
C22_Witness ==
    /\ TickDone
    /\ call.cmd.kind = "none"
    /\ 4 * Hypot2(call.tick.target.x - robot.x, call.tick.target.y - robot.y)
          = position_tolerance * position_tolerance


\* update on a follower that is not running returns False, changes no field of
\* the follower and sends nothing.
IdleUpdateChangesNothing ==
    (call'.name = "update" /\ ~running) =>
        /\ call'.ret = FALSE
        /\ call'.cmd = NoCommand
        /\ UNCHANGED <<track, lookahead_distance, position_tolerance, offset, running, current_track_index, last_target, stuck_counter, robot>>

\* Only start sets running.
OnlyStartStarts == (running' /\ ~running) => call'.name = "start"

\* start on a robot that is not ready, the follower not running: RuntimeError,
\* running still False.
StartRefused ==
    (call'.name = "start" /\ ~ready /\ ~running) =>
        /\ "error" \in DOMAIN call'
        /\ ~running'

\* After an update that returned False the follower is not running.
FalseMeansNotRunning == (call.name = "update" /\ ~call.ret) => ~running

\* C23: update on a follower that is not running (never started, stopped or
\* complete) returns False and changes nothing: progress index, stuck counter,
\* last target and offset stay and no command is sent; once update has returned
\* False the follower is not running, and stays so (every update returning
\* False) until start is called; start on a robot that is not ready raises an
\* error and leaves running False.
C23_IdleUpdate ==
    /\ []FalseMeansNotRunning
    /\ [][IdleUpdateChangesNothing /\ OnlyStartStarts /\ StartRefused]_vars

\* An update that returns False on a follower that has run (it has a last
\* target) and is no longer running, the robot not ready any more.
C23_Witness ==
    /\ call.name = "update"
    /\ ~call.ret
    /\ call.tick = None
    /\ ~running
    /\ ~ready
    /\ last_target # None


\* Thread t is inside a blocking move_by_vector that nothing has disturbed.
Blocked(t) == threads[t].pc # "out" /\ threads[t].undisturbed

\* A blocking call returns with the robot within pos_tolerance of its goal,
\* unless stop() or another move_by_vector came in between.
ReturnsAtGoal ==
    (call.name = "returned" /\ call.undisturbed) =>
        Abs(call.x - call.goal) <= PosTolerance

C25_IndexInRange ==
    /\ current_track_index >= 0
    /\ current_track_index <= Len(track.points) - 1

\* A tick whose forced jump was clamped to the last index.
C25_Witness ==
    /\ TickDone
    /\ call.tick.jumped
    /\ call.tick.first_index + StuckJump > LastIndex
    /\ current_track_index = LastIndex


\* The squared distance from the agent to waypoint i.
AgentDistance2(i) == Hypot2(At(track.points, i).x - robot.x, At(track.points, i).y - robot.y)

\* C26: one get_target_position call cannot snap to a distant part of the path:
\* wherever the agent is, the call moves progress_index backward by at most 5
\* (the backward window) and forward by at most 20 (the forward window), so an
\* index further away is never selected, even when its waypoint is closer.
C26_WindowBoundsStep ==
    call.name = "get_target_position" =>
        /\ current_track_index >= call.index_before - BackwardWindow
        /\ current_track_index <= call.index_before + ForwardWindow

\* A call that kept to the window although a waypoint beyond it is strictly
\* closer to the agent than the one selected.
C26_Witness ==
    /\ call.name = "get_target_position"
    /\ \E j \in 0..LastIndex :
          /\ j > call.index_before + ForwardWindow
          /\ AgentDistance2(j) < AgentDistance2(current_track_index)

\* A call that moved progress_index back by the whole backward window.
BackByWindow ==
    /\ call.name = "get_target_position"
    /\ current_track_index = call.index_before - BackwardWindow

\* A call that moved progress_index forward by 19, the furthest the loop looks.
ForwardByWindow ==
    /\ call.name = "get_target_position"
    /\ current_track_index = call.index_before + ForwardWindow - 1

\* The last call was a get_target_position call repeated with the agent still
\* where the call before had read it.
RepeatedQuery ==
    /\ call.name = "get_target_position"
    /\ "target_before" \in DOMAIN call

\* C27 as stated: the progress update is a fixed point for a stationary agent:
\* after one get_target_position call has set progress_index to c with the agent
\* at p, another call with the agent still at p leaves progress_index at c and
\* returns the same target, on every path, self-overlapping ones included.
C27_FixedPoint ==
    RepeatedQuery =>
        /\ current_track_index = call.index_before
        /\ call.target = call.target_before

\* Waypoint j would be preferred to waypoint c by a search that sees both:
\* closer to the agent, or as close and earlier.
Preferred(j, c) ==
    \/ AgentDistance2(j) < AgentDistance2(c)
    \/ AgentDistance2(j) = AgentDistance2(c) /\ j < c

\* The indices a search from c looks at.
WindowOf(c) ==
    Max(0, c - BackwardWindow)..Min(LastIndex, c + ForwardWindow - 1)

\* C27, amended: the repeated call searches the window around c, which reaches
\* further than the window that found c.  It leaves progress_index at c and
\* returns the same target when no waypoint of indices c-5..c+19 is closer to
\* the agent than waypoint c (or as close and earlier); otherwise progress_index
\* moves again, within that window, to a waypoint no further from the agent.
C27_FixedPointInWindow ==
    RepeatedQuery =>
        /\ current_track_index \in WindowOf(call.index_before)
        /\ AgentDistance2(current_track_index) <= AgentDistance2(call.index_before)
        /\ (\A j \in WindowOf(call.index_before) : ~Preferred(j, call.index_before)) =>
              /\ current_track_index = call.index_before
              /\ call.target = call.target_before

\* A repeated call, away from the start of the path, that left progress_index
\* and the target as they were.
C27_Witness ==
    /\ RepeatedQuery
    /\ call.index_before > BackwardWindow
    /\ current_track_index = call.index_before
    /\ call.target = call.target_before

\* A repeated call that moved progress_index back, to an earlier waypoint as
\* close to the agent.
RepeatedQueryMovedBack ==
    /\ RepeatedQuery
    /\ current_track_index < call.index_before
    /\ AgentDistance2(current_track_index) = AgentDistance2(call.index_before)


\* C28: within one update tick the completion check, the computation of the
\* target and of progress_index, and the displacement vector all use the same
\* agent pose, also when the position source changes the pose concurrently: the
\* vector sent is never computed from a target and a position that belong to
\* different poses.
C28_OnePosePerTick ==
    (TickDone /\ "reads" \in DOMAIN call) =>
        /\ call.reads.pose = call.reads.at_end
        /\ call.reads.look = call.reads.pose
        /\ call.reads.relook = call.reads.pose
        /\ call.cmd = MoveCommand(call.tick.target, call.reads.look.x, call.reads.look.y,
                                  position_tolerance)

\* A tick that sent a vector from the pose update read to a target computed
\* from another pose.
MixedPoses ==
    /\ TickDone
    /\ "reads" \in DOMAIN call
    /\ call.cmd.kind = "move"
    /\ call.reads.look # call.reads.pose
    /\ call.cmd # MoveCommand(call.tick.target, call.reads.look.x, call.reads.look.y,
                              position_tolerance)


\* C29: open-path tracking terminates: for an open path, a started follower,
\* any offset in the clamped range and an agent that after each tick stands at
\* the commanded target (or stays put when no command is sent), update
\* eventually returns False; the follower never keeps returning True forever.
C29_Terminates == running ~> (call.name = "update" /\ ~call.ret)


\* C30: load_calibration of the file save_calibration wrote returns True and
\* restores orientation_offset and is_calibrated to the values saved; for a
\* missing file, invalid JSON or a file lacking a required key it returns False;
\* and whenever it returns False, orientation_offset and is_calibrated are
\* exactly what they were before the call.
\* load_calibration returned the value v (it did not raise).
Returned(v) == call.raised = None /\ call.ret = v

LoadsSaved ==
    (call.saved # None /\ call.file = SaveCalibration(call.saved)) =>
        /\ Returned(TRUE)
        /\ calibrator.orientation_offset = call.saved.orientation_offset
        /\ calibrator.is_calibrated = call.saved.is_calibrated

RefusesBadFile ==
    (\/ call.file \in {MissingFile, InvalidJson}
     \/ /\ call.file.kind = "object"
        /\ ~({"orientation_offset", "is_calibrated"} \subseteq DOMAIN call.file.members))
        => Returned(FALSE)

FalseLeavesUnchanged ==
    Returned(FALSE) =>
        /\ calibrator.orientation_offset = call.before.orientation_offset
        /\ calibrator.is_calibrated = call.before.is_calibrated

C30_LoadCalibration ==
    call.name = "load_calibration" =>
        LoadsSaved /\ RefusesBadFile /\ FalseLeavesUnchanged

\* The parts of C30 taken one at a time.
C30_LoadsSaved == call.name = "load_calibration" => LoadsSaved
C30_RefusesBadFile == call.name = "load_calibration" => RefusesBadFile
C30_FalseLeavesUnchanged == call.name = "load_calibration" => FalseLeavesUnchanged

====
